---- MODULE Spec2Model ----
(***************************************************************************)
(* Paper-trading execution engine of stock-fantasy-api                     *)
(* (src/app/trading_engine.py, class TradingEngine).                       *)
(*                                                                         *)
(* The engine is modelled as constructed with a database client, so that   *)
(* the `if self.db:` branches of _execute_buy/_execute_sell run: the       *)
(* account is the league_agents row of one (agent, league) pair and the    *)
(* ledger is the trades table.  Money is counted in whole units (integers) *)
(* and an optional value (None or a value) is a sequence of length <= 1.   *)
(***************************************************************************)
EXTENDS Integers, Sequences, FiniteSets, TLC

VARIABLES
    account,   \* league_agents row: starting_capital, current_cash, positions
    trades,    \* trades table: the ledger, in insertion order
    last,      \* the latest completed execute_decision call and what it returned
    opening,   \* the account row as it was when the run started
    pc,        \* per caller: where its execute_decision call stands
    call,      \* per caller: the locals of its call in flight
    realized,  \* ScoringService: the latest _calculate_realized_pnl result
    league,    \* league_agents rows of one league, by agent id
    ledgers,   \* trades rows of that league, by agent id, in timestamp order
    scores,    \* the latest calculate_weekly_scores call and its result
    events,    \* DataService: content of agent_events.json
    lock,      \* DataService._lock: the thread holding it, or None
    recorder,  \* per thread: where its record_trade call stands, its locals
    acked,     \* the trades that record_trade calls have returned
    user_events, \* DataService: the list stored in user_events.json
    roster,    \* the latest user-event call of DataService and what it returned
    cache,     \* MarketDataCache: the cache dict and the timestamps dict
    now,       \* the clock read by datetime.utcnow()
    served,    \* the latest market data call and what it returned
    fetches,   \* per caller: where its get_ticker_data call stands, its locals
    series,    \* the closing prices the price source holds for a ticker
    snapshot,  \* the latest _fetch_ticker_sync call and what it returned
    answer,    \* LLMOrchestrator: the latest get_decision call and its outcome
    batch      \* the get_decisions_parallel call in flight, or its outcome

engineVars == <<account, trades, last, opening, pc, call>>
scoreVars == <<realized, league, ledgers, scores>>
dataVars == <<events, lock, recorder, acked, user_events, roster>>
marketVars == <<cache, now, served, fetches>>
indicatorVars == <<series, snapshot>>
llmVars == <<answer, batch>>

vars == <<engineVars, scoreVars, dataVars, marketVars, indicatorVars, llmVars>>

\* ------------------------------------------------------------------ bounds
MaxTrades == 2          \* ledger length explored

\* ------------------------------------------------------- program constants
MAX_POSITIONS == 5
MAX_POSITION_SIZE_PCT == 30     \* 0.30, in percent
DEFAULT_STARTING_CAPITAL == 10  \* 10000, counted in thousands

\* ------------------------------------------------------------------ inputs
None == <<>>
Some(v) == <<v>>

Tickers == {"AAPL", "MSFT", "NVDA", "TSLA", "AMZN", "GOOG"}
TickerInputs == {None, Some(""), Some("AAPL"), Some("goog"), Some("AMZN")}
QuantityInputs == {None, Some(-1), Some(0), Some(1), Some(2)}
Prices == {1, 2}
Callers == {1, 2}

\* LLMDecision: action, ticker?, quantity? (confidence and reasoning are not
\* read by the checks of the engine)
Decisions ==
    [action : {"buy", "sell"}, ticker : TickerInputs, quantity : QuantityInputs]
    \cup [action : {"hold"}, ticker : TickerInputs, quantity : QuantityInputs]
    \cup [action : {"BUY", "short"}, ticker : {None, Some("AAPL")},
          quantity : {None, Some(1)}]

\* str.lower() / str.upper() on the strings of the input sets
Lower(s) == IF s = "BUY" THEN "buy" ELSE s
Upper(s) == IF s = "goog" THEN "GOOG" ELSE s

\* a ticker test that only catches None
NoTickerOnlyNone(t) == t = None

\* `not decision.ticker`: None and the empty string are falsy
NoTicker(t) == t = None \/ t = Some("")

\* `decision.quantity or 1`: None and 0 are falsy
QuantityOr1(q) == IF q = None \/ q = Some(0) THEN 1 ELSE q[1]

\* dict.get(ticker, 0)
Held(positions, ticker) == IF ticker \in DOMAIN positions THEN positions[ticker] ELSE 0

\* Trade(...) as built by the engine
Trade(action, ticker, quantity, price) ==
    [action |-> action, ticker |-> ticker, quantity |-> quantity,
     entry_price |-> price, executed |-> TRUE]

\* what a call has decided when it returns or reaches the persistence calls:
\* the returned (success, trade, error), and the trade and account values it
\* hands to _persist_trade and _update_league_agent_state (None: not reached)
Rejected(msg) ==
    [success |-> FALSE, trade |-> None, error |-> Some(msg),
     persist |-> None, new_cash |-> None, new_positions |-> None]

Accepted(trade, new_cash, new_positions) ==
    [success |-> TRUE, trade |-> Some(trade), error |-> None,
     persist |-> Some(trade), new_cash |-> Some(new_cash),
     new_positions |-> Some(new_positions)]

HoldResult ==
    [success |-> TRUE, trade |-> None, error |-> None,
     persist |-> None, new_cash |-> None, new_positions |-> None]

\* a buy that overwrites the held quantity instead of adding to it
BuyPositionsOverwrite(positions, ticker, quantity) ==
    [t \in DOMAIN positions \cup {ticker} |->
        IF t = ticker THEN quantity ELSE positions[t]]

\* positions after a buy: new_positions[ticker] = new_positions.get(ticker, 0) + quantity
BuyPositions(positions, ticker, quantity) ==
    [t \in DOMAIN positions \cup {ticker} |->
        IF t = ticker THEN Held(positions, ticker) + quantity ELSE positions[t]]

\* a sell that keeps the entry when its quantity reaches 0
SellPositionsKeepZero(positions, ticker, quantity) ==
    [t \in DOMAIN positions |->
        IF t = ticker THEN positions[t] - quantity ELSE positions[t]]

\* positions after a sell: new_positions[ticker] -= quantity; del when it is 0
SellPositions(positions, ticker, quantity) ==
    IF positions[ticker] - quantity = 0
    THEN [t \in DOMAIN positions \ {ticker} |-> positions[t]]
    ELSE [t \in DOMAIN positions |->
            IF t = ticker THEN positions[t] - quantity ELSE positions[t]]

\* a buy that skips the cash check
InsufficientCashSkipped(order_value, current_cash) == FALSE

\* the cash check of _execute_buy
InsufficientCash(order_value, current_cash) == order_value > current_cash

\* the position size check: order_value > starting_capital * 0.30
PositionTooLarge(order_value, starting_capital) ==
    order_value * 100 > starting_capital * MAX_POSITION_SIZE_PCT

\* a position count check that is off by one
MaxPositionsOffByOne(positions, ticker) ==
    Cardinality(DOMAIN positions) > MAX_POSITIONS /\ ticker \notin DOMAIN positions

\* the concurrent positions check
MaxPositionsReached(positions, ticker) ==
    Cardinality(DOMAIN positions) >= MAX_POSITIONS /\ ticker \notin DOMAIN positions

\* a position check that only asks whether the ticker is held
InsufficientPositionAnyQuantity(positions, ticker, quantity) ==
    ticker \notin DOMAIN positions

\* the position check of _execute_sell
InsufficientPosition(positions, ticker, quantity) ==
    ticker \notin DOMAIN positions \/ positions[ticker] < quantity

\* a buy that checks the position count only after it has stored the trade
ExecuteBuyLateCheck(d, price, acct) ==
    LET ticker == Upper(d.ticker[1])
        quantity == QuantityOr1(d.quantity)
        order_value == price * quantity
        stored == Accepted(Trade("buy", ticker, quantity, price),
                           acct.current_cash - order_value,
                           BuyPositions(acct.positions, ticker, quantity))
    IN  IF quantity <= 0 THEN Rejected("Quantity must be positive")
        ELSE IF InsufficientCash(order_value, acct.current_cash)
            THEN Rejected("Insufficient cash")
        ELSE IF PositionTooLarge(order_value, acct.starting_capital)
            THEN Rejected("Position too large")
        ELSE IF MaxPositionsReached(acct.positions, ticker)
            THEN [stored EXCEPT !.success = FALSE, !.trade = None,
                                !.error = Some("Max positions reached")]
        ELSE stored

\* _execute_buy up to (not including) the persistence calls
ExecuteBuy(d, price, acct) ==
    LET ticker == Upper(d.ticker[1])
        quantity == QuantityOr1(d.quantity)
        order_value == price * quantity
    IN  IF quantity <= 0 THEN Rejected("Quantity must be positive")
        ELSE IF InsufficientCash(order_value, acct.current_cash)
            THEN Rejected("Insufficient cash")
        ELSE IF PositionTooLarge(order_value, acct.starting_capital)
            THEN Rejected("Position too large")
        ELSE IF MaxPositionsReached(acct.positions, ticker)
            THEN Rejected("Max positions reached")
        ELSE Accepted(Trade("buy", ticker, quantity, price),
                      acct.current_cash - order_value,
                      BuyPositions(acct.positions, ticker, quantity))

\* a sell that credits the price of one share whatever the quantity
ExecuteSellCreditsPrice(d, price, acct) ==
    LET ticker == Upper(d.ticker[1])
        quantity == QuantityOr1(d.quantity)
    IN  IF quantity <= 0 THEN Rejected("Quantity must be positive")
        ELSE IF InsufficientPosition(acct.positions, ticker, quantity)
            THEN Rejected("Insufficient position")
        ELSE Accepted(Trade("sell", ticker, quantity, price),
                      acct.current_cash + price,
                      SellPositions(acct.positions, ticker, quantity))

\* _execute_sell up to (not including) the persistence calls
ExecuteSell(d, price, acct) ==
    LET ticker == Upper(d.ticker[1])
        quantity == QuantityOr1(d.quantity)
    IN  IF quantity <= 0 THEN Rejected("Quantity must be positive")
        ELSE IF InsufficientPosition(acct.positions, ticker, quantity)
            THEN Rejected("Insufficient position")
        ELSE Accepted(Trade("sell", ticker, quantity, price),
                      acct.current_cash + price * quantity,
                      SellPositions(acct.positions, ticker, quantity))

\* an execute_decision that tests the ticker before it tests for hold
DecideTickerFirst(d, price, acct) ==
    LET action == Lower(d.action)
    IN  IF NoTicker(d.ticker) THEN Rejected("No ticker provided")
        ELSE IF action = "hold" THEN HoldResult
        ELSE IF action \notin {"buy", "sell"} THEN Rejected("Invalid action")
        ELSE IF action = "buy" THEN ExecuteBuy(d, price, acct)
        ELSE ExecuteSell(d, price, acct)

\* execute_decision: what it decides from the snapshot it is given
Decide(d, price, acct) ==
    LET action == Lower(d.action)
    IN  IF action = "hold" THEN HoldResult
        ELSE IF action \notin {"buy", "sell"} THEN Rejected("Invalid action")
        ELSE IF NoTicker(d.ticker) THEN Rejected("No ticker provided")
        ELSE IF action = "buy" THEN ExecuteBuy(d, price, acct)
        ELSE ExecuteSell(d, price, acct)

\* _persist_trade: insert into the trades table
PersistTrade(ledger, trade) == Append(ledger, trade)

\* an update of the row that writes the cash and leaves the positions
UpdateLeagueAgentCash(acct, new_cash, new_positions) ==
    [acct EXCEPT !.current_cash = new_cash]

\* _update_league_agent_state: update current_cash and positions of the row
UpdateLeagueAgentState(acct, new_cash, new_positions) ==
    [acct EXCEPT !.current_cash = new_cash, !.positions = new_positions]

\* a value that counts one share of every ticker held
RECURSIVE PositionValuePerTicker(_, _, _)
PositionValuePerTicker(tickers, positions, current_prices) ==
    IF tickers = {} THEN 0
    ELSE LET t == CHOOSE k \in tickers : TRUE
         IN  (IF t \in DOMAIN current_prices THEN current_prices[t] ELSE 0)
                 + PositionValuePerTicker(tickers \ {t}, positions, current_prices)

\* sum(current_prices.get(ticker, 0) * quantity for ticker, quantity in
\* positions.items())
RECURSIVE PositionValue(_, _, _)
PositionValue(tickers, positions, current_prices) ==
    IF tickers = {} THEN 0
    ELSE LET t == CHOOSE k \in tickers : TRUE
         IN  (IF t \in DOMAIN current_prices THEN current_prices[t] ELSE 0) * positions[t]
                 + PositionValue(tickers \ {t}, positions, current_prices)

\* calculate_total_portfolio_value
CalculateTotalPortfolioValue(current_cash, positions, current_prices) ==
    current_cash + PositionValue(DOMAIN positions, positions, current_prices)

\* ------------------------------------------------------------------- state
NoDecision == [action |-> "hold", ticker |-> None, quantity |-> None]

\* the record of a completed call: its inputs, what it returned, and the
\* account row and ledger it started from
CallRecord(d, price, r, acct, ledger) ==
    [called |-> TRUE, decision |-> d, price |-> price,
     success |-> r.success, trade |-> r.trade, error |-> r.error,
     before |-> [account |-> acct, trades |-> ledger]]

NoCall(acct) ==
    [called |-> FALSE, decision |-> NoDecision, price |-> 1,
     success |-> TRUE, trade |-> None, error |-> None,
     before |-> [account |-> acct, trades |-> <<>>]]

Idle == [snapshot |-> None, persist |-> None, new_cash |-> None, new_positions |-> None]

\* accounts a run starts from: a fresh one, and one that already holds
\* four tickers
FourHeld == [t \in {"AAPL", "MSFT", "NVDA", "TSLA"} |-> 1]

OpeningAccounts ==
    { [starting_capital |-> DEFAULT_STARTING_CAPITAL,
       current_cash |-> DEFAULT_STARTING_CAPITAL, positions |-> <<>>],
      [starting_capital |-> DEFAULT_STARTING_CAPITAL,
       current_cash |-> 3, positions |-> FourHeld] }

\* the components a specification does not exercise stay as constructed
ScoreIdle ==
    /\ realized = None
    /\ league = <<>>
    /\ ledgers = <<>>
    /\ scores = None

\* a file of DataService: whether its text parses as JSON, and the list it holds
JsonFile(rows) == [parses |-> TRUE, rows |-> rows]
TruncatedFile == [parses |-> FALSE, rows |-> <<>>]

DataIdle ==
    /\ events = JsonFile(<<>>)
    /\ lock = None
    /\ recorder = <<>>
    /\ acked = <<>>
    /\ user_events = <<>>
    /\ roster = None

\* MarketDataCache.__init__: the cache and timestamps dicts, both empty
EmptyCache == [cache |-> <<>>, timestamps |-> <<>>]

MarketIdle ==
    /\ cache = EmptyCache
    /\ now = 0
    /\ served = None
    /\ fetches = <<>>

IndicatorIdle ==
    /\ series = <<>>
    /\ snapshot = None

LlmIdle ==
    /\ answer = None
    /\ batch = None

Init ==
    /\ account \in OpeningAccounts
    /\ opening = account
    /\ trades = <<>>
    /\ last = NoCall(account)
    /\ pc = [c \in Callers |-> "idle"]
    /\ call = [c \in Callers |-> Idle]
    /\ ScoreIdle
    /\ DataIdle
    /\ MarketIdle
    /\ IndicatorIdle
    /\ LlmIdle

\* ------------------------------------------- one call at a time (sequential)
\* execute_decision run to completion on the current row of the account
RunDecision(d, price) ==
    /\ \A c \in Callers : pc[c] = "idle"
    /\ LET r == Decide(d, price, account)
       IN  /\ last' = CallRecord(d, price, r, account, trades)
           /\ IF r.persist # None
              THEN /\ trades' = PersistTrade(trades, r.persist[1])
                   /\ account' = UpdateLeagueAgentState(account, r.new_cash[1],
                                                        r.new_positions[1])
              ELSE UNCHANGED <<account, trades>>
    /\ UNCHANGED <<opening, pc, call>>
    /\ UNCHANGED <<scoreVars, dataVars, marketVars, indicatorVars, llmVars>>

ExecuteDecision(d, price) ==
    /\ Len(trades) < MaxTrades
    /\ RunDecision(d, price)

Next == \E d \in Decisions, price \in Prices : ExecuteDecision(d, price)

Spec == Init /\ [][Next]_vars

\* ------------------------------------------------ calls that may interleave
\* A call suspends at each await: after validating against the snapshot it
\* was given, before the insert into trades, and before the update of the row.
InFlight == {c \in Callers : pc[c] # "idle"}

\* execute_decision up to the first await, for a decision that passes the
\* checks (a rejected or hold decision returns at once and changes nothing)
Begin(c, d, price) ==
    /\ pc[c] = "idle"
    /\ Len(trades) + Cardinality({k \in Callers : pc[k] = "persist"}) < MaxTrades
    /\ LET r == Decide(d, price, account)
       IN  /\ r.persist # None
           /\ call' = [call EXCEPT ![c] =
                          [snapshot |-> Some(account), persist |-> r.persist,
                           new_cash |-> r.new_cash,
                           new_positions |-> r.new_positions]]
    /\ pc' = [pc EXCEPT ![c] = "persist"]
    /\ UNCHANGED <<account, trades, last, opening>>
    /\ UNCHANGED <<scoreVars, dataVars, marketVars, indicatorVars, llmVars>>

\* await self._persist_trade(trade)
Persist(c) ==
    /\ pc[c] = "persist"
    /\ trades' = PersistTrade(trades, call[c].persist[1])
    /\ pc' = [pc EXCEPT ![c] = "update"]
    /\ UNCHANGED <<account, last, opening, call>>
    /\ UNCHANGED <<scoreVars, dataVars, marketVars, indicatorVars, llmVars>>

\* await self._update_league_agent_state(...), then return
Update(c) ==
    /\ pc[c] = "update"
    /\ account' = UpdateLeagueAgentState(account, call[c].new_cash[1],
                                         call[c].new_positions[1])
    /\ pc' = [pc EXCEPT ![c] = "idle"]
    /\ call' = [call EXCEPT ![c] = Idle]
    /\ UNCHANGED <<trades, last, opening>>
    /\ UNCHANGED <<scoreVars, dataVars, marketVars, indicatorVars, llmVars>>

NextConc ==
    \/ \E c \in Callers, d \in Decisions, price \in Prices : Begin(c, d, price)
    \/ \E c \in Callers : Persist(c)
    \/ \E c \in Callers : Update(c)

SpecConc == Init /\ [][NextConc]_vars

\* -------------------------------------- one call at a time, storage may fail
\* a call that starts when no other call is in flight
BeginAlone(c, d, price) ==
    /\ InFlight = {}
    /\ Begin(c, d, price)

\* the insert raises: the exception leaves execute_decision, nothing is stored
PersistFails(c) ==
    /\ pc[c] = "persist"
    /\ pc' = [pc EXCEPT ![c] = "idle"]
    /\ call' = [call EXCEPT ![c] = Idle]
    /\ UNCHANGED <<account, trades, last, opening>>
    /\ UNCHANGED <<scoreVars, dataVars, marketVars, indicatorVars, llmVars>>

\* the update raises: the exception leaves execute_decision after the insert
UpdateFails(c) ==
    /\ pc[c] = "update"
    /\ pc' = [pc EXCEPT ![c] = "idle"]
    /\ call' = [call EXCEPT ![c] = Idle]
    /\ UNCHANGED <<account, trades, last, opening>>
    /\ UNCHANGED <<scoreVars, dataVars, marketVars, indicatorVars, llmVars>>

NextFail ==
    \/ \E c \in Callers, d \in Decisions, price \in Prices : BeginAlone(c, d, price)
    \/ \E c \in Callers : Persist(c)
    \/ \E c \in Callers : Update(c)
    \/ \E c \in Callers : PersistFails(c)
    \/ \E c \in Callers : UpdateFails(c)

SpecFail == Init /\ [][NextFail]_vars

\* ------------------------------------- the scenario of the specification
\* The engine on a fresh account of 10000 with the prices and quantities of
\* the end-to-end scenario (money in single units).
MaxScenarioTrades == 4  \* ledger length explored in the scenario

ScenarioDecisions ==
    [action : {"buy", "sell"}, ticker : {Some("AAPL")}, quantity : {Some(5), Some(10)}]
ScenarioPrices == {150, 160}

ScenarioAccount ==
    [starting_capital |-> 10000, current_cash |-> 10000, positions |-> <<>>]

InitScenario ==
    /\ account = ScenarioAccount
    /\ opening = account
    /\ trades = <<>>
    /\ last = NoCall(account)
    /\ pc = [c \in Callers |-> "idle"]
    /\ call = [c \in Callers |-> Idle]
    /\ ScoreIdle
    /\ DataIdle
    /\ MarketIdle
    /\ IndicatorIdle
    /\ LlmIdle

ScenarioDecision(d, price) ==
    /\ Len(trades) < MaxScenarioTrades
    /\ RunDecision(d, price)

NextScenario ==
    \E d \in ScenarioDecisions, price \in ScenarioPrices : ScenarioDecision(d, price)

SpecScenario == InitScenario /\ [][NextScenario]_vars

\* -------------------------------------------- ScoringService: realized P&L
\* (src/app/services/scoring_service.py)  The floats of the code are exact
\* rationals here: <<n, d>> with d > 0, in lowest terms.
RECURSIVE Gcd(_, _)
Gcd(a, b) == IF b = 0 THEN a ELSE Gcd(b, a % b)

Abs(n) == IF n < 0 THEN -n ELSE n

Rat(n, d) ==
    LET g == Gcd(Abs(n), Abs(d))
        sign == IF d < 0 THEN -1 ELSE 1
    IN  <<(sign * n) \div g, (sign * d) \div g>>

Int2Rat(n) == <<n, 1>>
RatAdd(a, b) == Rat(a[1] * b[2] + b[1] * a[2], a[2] * b[2])
RatSub(a, b) == Rat(a[1] * b[2] - b[1] * a[2], a[2] * b[2])
RatMul(a, b) == Rat(a[1] * b[1], a[2] * b[2])
RatDiv(a, b) == Rat(a[1] * b[2], a[2] * b[1])

\* the running state of the loop over one ticker's trades
NothingHeld == [quantity_held |-> 0, entry_cost |-> Int2Rat(0), realized_pnl |-> Int2Rat(0)]

\* a buy that adds the price, not price x quantity, to the cost
BuyStepAddsPrice(st, trade) ==
    [st EXCEPT !.entry_cost = RatAdd(@, Int2Rat(trade.entry_price)),
               !.quantity_held = @ + trade.quantity]

\* action == "buy": entry_cost += price * qty; quantity_held += qty
BuyStep(st, trade) ==
    [st EXCEPT !.entry_cost = RatAdd(@, Int2Rat(trade.entry_price * trade.quantity)),
               !.quantity_held = @ + trade.quantity]

\* a sell that leaves entry_cost as it was
SellStepKeepsCost(st, trade) ==
    LET qty == Int2Rat(trade.quantity)
        avg_cost == IF st.quantity_held > 0
                    THEN RatDiv(st.entry_cost, Int2Rat(st.quantity_held))
                    ELSE Int2Rat(0)
    IN  [st EXCEPT !.realized_pnl =
                      RatAdd(@, RatMul(RatSub(Int2Rat(trade.entry_price), avg_cost), qty)),
                   !.quantity_held = @ - trade.quantity]

\* action == "sell": the average cost, the gain on the sold quantity, and the
\* reduction of quantity_held and entry_cost
SellStep(st, trade) ==
    LET qty == Int2Rat(trade.quantity)
        avg_cost == IF st.quantity_held > 0
                    THEN RatDiv(st.entry_cost, Int2Rat(st.quantity_held))
                    ELSE Int2Rat(0)
    IN  [st EXCEPT !.realized_pnl =
                      RatAdd(@, RatMul(RatSub(Int2Rat(trade.entry_price), avg_cost), qty)),
                   !.quantity_held = @ - trade.quantity,
                   !.entry_cost = RatSub(@, RatMul(avg_cost, qty))]

\* the inner loop: the trades of one ticker, in order
RECURSIVE TickerLoop(_, _)
TickerLoop(st, ticker_list) ==
    IF ticker_list = <<>> THEN st
    ELSE LET trade == Head(ticker_list)
         IN  TickerLoop(IF trade.action = "buy" THEN BuyStep(st, trade)
                        ELSE IF trade.action = "sell" THEN SellStep(st, trade)
                        ELSE st,
                        Tail(ticker_list))

\* the keys of ticker_trades in insertion order; a trade without ticker is skipped
RECURSIVE TickerKeys(_, _)
TickerKeys(ledger, seen) ==
    IF ledger = <<>> THEN seen
    ELSE LET ticker == Head(ledger).ticker
         IN  TickerKeys(Tail(ledger),
                        IF ticker = "" \/ \E i \in 1..Len(seen) : seen[i] = ticker
                        THEN seen ELSE Append(seen, ticker))

\* a grouping that puts every trade under every ticker
TickerTradesUngrouped(ledger, ticker) == ledger

\* ticker_trades[ticker]
TickerTrades(ledger, ticker) == SelectSeq(ledger, LAMBDA t : t.ticker = ticker)

\* the outer loop: realized_pnl accumulated over the tickers
RECURSIVE PnlOverTickers(_, _, _)
PnlOverTickers(ledger, keys, realized_pnl) ==
    IF keys = <<>> THEN realized_pnl
    ELSE PnlOverTickers(ledger, Tail(keys),
            RatAdd(realized_pnl,
                   TickerLoop(NothingHeld, TickerTrades(ledger, Head(keys))).realized_pnl))

\* _calculate_realized_pnl(trades, current_prices)
CalculateRealizedPnl(ledger) ==
    PnlOverTickers(ledger, TickerKeys(ledger, <<>>), Int2Rat(0))

\* the rows a trades table may hold for one agent
MaxRows == 3            \* ledger length explored for the P&L replay

TradeRows ==
    {Trade(a, "AAPL", q, p) : a \in {"buy", "sell"}, q \in {1, 2}, p \in {1, 3}}
    \cup {Trade(a, "MSFT", 1, p) : a \in {"buy", "sell"}, p \in {1, 3}}
    \cup {Trade("hold", "AAPL", 1, 1), Trade("buy", "", 1, 1)}

InitPnl ==
    /\ trades = <<>>
    /\ realized = None
    /\ league = <<>>
    /\ ledgers = <<>>
    /\ scores = None
    /\ account = [starting_capital |-> DEFAULT_STARTING_CAPITAL,
                  current_cash |-> DEFAULT_STARTING_CAPITAL, positions |-> <<>>]
    /\ opening = account
    /\ last = NoCall(account)
    /\ pc = [c \in Callers |-> "idle"]
    /\ call = [c \in Callers |-> Idle]
    /\ DataIdle
    /\ MarketIdle
    /\ IndicatorIdle
    /\ LlmIdle

\* a row is inserted into the trades table
InsertTradeRow(row) ==
    /\ Len(trades) < MaxRows
    /\ trades' = Append(trades, row)
    /\ realized' = None
    /\ UNCHANGED <<account, last, opening, pc, call, league, ledgers, scores>>
    /\ UNCHANGED <<dataVars, marketVars, indicatorVars, llmVars>>

\* _calculate_realized_pnl is called on the rows of the table
RealizedPnlCall ==
    /\ realized = None
    /\ realized' = Some(CalculateRealizedPnl(trades))
    /\ UNCHANGED <<engineVars, league, ledgers, scores>>
    /\ UNCHANGED <<dataVars, marketVars, indicatorVars, llmVars>>

NextPnl ==
    \/ \E row \in TradeRows : InsertTradeRow(row)
    \/ RealizedPnlCall

SpecPnl == InitPnl /\ [][NextPnl]_vars

\* ------------------------------------------ ScoringService: weekly scores
\* (src/app/services/scoring_service.py)  The rows of league_agents carry
\* realized_pnl and unrealized_pnl columns that no code of the repository
\* writes; the engine updates current_cash and positions only.
MaxLeagueTrades == 2    \* execute_decision calls explored before scoring

Agents == {1, 2}
ScoreTickers == {"AAPL", "MSFT"}
ScorePrices == {1, 2}

LeagueDecisions ==
    [action : {"buy", "sell"}, ticker : {Some(t) : t \in ScoreTickers},
     quantity : {Some(1), Some(2)}]

\* a league_agents row as it is when the agent joins the league
NewRow(agent_id) ==
    [agent_id |-> agent_id,
     starting_capital |-> DEFAULT_STARTING_CAPITAL,
     current_cash |-> DEFAULT_STARTING_CAPITAL,
     positions |-> <<>>,
     realized_pnl |-> 0,
     unrealized_pnl |-> 0]

\* the orders in which a select without order clause may return the rows
ResponseOrders ==
    {o \in [1..Cardinality(Agents) -> Agents] :
        \A i, j \in DOMAIN o : o[i] = o[j] => i = j}

\* LeagueAgent(...) built from a row: total_pnl = realized_pnl + unrealized_pnl
LeagueAgent(row) ==
    [agent_id |-> row.agent_id,
     starting_capital |-> row.starting_capital,
     current_cash |-> row.current_cash,
     positions |-> row.positions,
     realized_pnl |-> row.realized_pnl,
     unrealized_pnl |-> row.unrealized_pnl,
     total_pnl |-> row.realized_pnl + row.unrealized_pnl]

\* a descending sort that puts an agent ahead of its equals
SortInsertAhead(agent, sorted) ==
    LET before == SelectSeq(sorted, LAMBDA x : x.total_pnl > agent.total_pnl)
        after == SelectSeq(sorted, LAMBDA x : x.total_pnl <= agent.total_pnl)
    IN  before \o <<agent>> \o after

\* list.sort(key=total_pnl, reverse=True) is stable: an agent goes behind the
\* agents already placed whose total_pnl is not smaller
SortInsert(agent, sorted) ==
    LET before == SelectSeq(sorted, LAMBDA x : x.total_pnl >= agent.total_pnl)
        after == SelectSeq(sorted, LAMBDA x : x.total_pnl < agent.total_pnl)
    IN  before \o <<agent>> \o after

RECURSIVE SortStandings(_, _)
SortStandings(standings, sorted) ==
    IF standings = <<>> THEN sorted
    ELSE SortStandings(Tail(standings), SortInsert(Head(standings), sorted))

\* get_league_standings: the rows in response order, sorted by total_pnl
GetLeagueStandings(rows, order) ==
    SortStandings([i \in DOMAIN order |-> LeagueAgent(rows[order[i]])], <<>>)

CountAction(ledger, action) ==
    Len(SelectSeq(ledger, LAMBDA t : t.action = action))

\* _calculate_win_rate divides by the number of sells whenever the trade list
\* is not empty
WinRateRaises(ledger) == ledger # <<>> /\ CountAction(ledger, "sell") = 0

\* every sell counts as winning: winning_trades / sells * 100
WinRate(ledger) ==
    IF ledger = <<>> THEN Int2Rat(0)
    ELSE RatMul(RatDiv(Int2Rat(CountAction(ledger, "sell")),
                       Int2Rat(CountAction(ledger, "sell"))), Int2Rat(100))

RECURSIVE SumOver(_, _, _)
SumOver(keys, positions, current_prices) ==
    IF keys = {} THEN 0
    ELSE LET t == CHOOSE k \in keys : TRUE
         IN  current_prices[t] * positions[t]
                 + SumOver(keys \ {t}, positions, current_prices)

\* agent.current_cash + sum(current_prices.get(ticker, 0) * qty ...)
PortfolioValue(agent, current_prices) ==
    agent.current_cash + SumOver(DOMAIN agent.positions, agent.positions, current_prices)

\* the score entry of the agent at index i of the standings
ScoreEntry(i, agent, ledger, current_prices) ==
    LET realized_pnl == CalculateRealizedPnl(ledger)
        unrealized_pnl == Int2Rat(agent.unrealized_pnl)
        total_pnl == RatAdd(realized_pnl, unrealized_pnl)
    IN  [rank |-> i,
         agent_id |-> agent.agent_id,
         starting_capital |-> agent.starting_capital,
         current_portfolio_value |-> PortfolioValue(agent, current_prices),
         total_pnl |-> total_pnl,
         pnl_pct |-> IF agent.starting_capital > 0
                     THEN RatMul(RatDiv(total_pnl, Int2Rat(agent.starting_capital)),
                                 Int2Rat(100))
                     ELSE Int2Rat(0),
         realized_pnl |-> realized_pnl,
         unrealized_pnl |-> unrealized_pnl,
         num_trades |-> Len(ledger),
         buy_trades |-> CountAction(ledger, "buy"),
         sell_trades |-> CountAction(ledger, "sell"),
         win_rate |-> WinRate(ledger)]

\* calculate_weekly_scores: what the call gives back, a dict by agent id or
\* the ZeroDivisionError of _calculate_win_rate
WeeklyScores(rows, agent_trades, order, current_prices) ==
    LET standings == GetLeagueStandings(rows, order)
    IN  IF \E i \in DOMAIN standings : WinRateRaises(agent_trades[standings[i].agent_id])
        THEN [raised |-> TRUE, current_prices |-> current_prices, entries |-> <<>>]
        ELSE [raised |-> FALSE, current_prices |-> current_prices,
              entries |->
                 [a \in DOMAIN rows |->
                    LET i == CHOOSE k \in DOMAIN standings : standings[k].agent_id = a
                    IN  ScoreEntry(i, standings[i], agent_trades[a], current_prices)]]

InitScores ==
    /\ league = [a \in Agents |-> NewRow(a)]
    /\ ledgers = [a \in Agents |-> <<>>]
    /\ scores = None
    /\ realized = None
    /\ trades = <<>>
    /\ account = [starting_capital |-> DEFAULT_STARTING_CAPITAL,
                  current_cash |-> DEFAULT_STARTING_CAPITAL, positions |-> <<>>]
    /\ opening = account
    /\ last = NoCall(account)
    /\ pc = [c \in Callers |-> "idle"]
    /\ call = [c \in Callers |-> Idle]
    /\ DataIdle
    /\ MarketIdle
    /\ IndicatorIdle
    /\ LlmIdle

LeagueTradeCount == Len(ledgers[1]) + Len(ledgers[2])

\* execute_decision for one agent of the league, on its row and its trades
LeagueDecision(a, d, price) ==
    /\ LeagueTradeCount < MaxLeagueTrades
    /\ LET r == Decide(d, price, league[a])
       IN  IF r.persist # None
           THEN /\ ledgers' = [ledgers EXCEPT ![a] = PersistTrade(@, r.persist[1])]
                /\ league' = [league EXCEPT ![a] =
                                 UpdateLeagueAgentState(@, r.new_cash[1],
                                                        r.new_positions[1])]
           ELSE UNCHANGED <<league, ledgers>>
    /\ scores' = None
    /\ UNCHANGED <<engineVars, realized, dataVars, marketVars, indicatorVars, llmVars>>

\* calculate_weekly_scores(league_id, current_prices)
CalculateWeeklyScores(order, current_prices) ==
    /\ scores = None
    /\ scores' = Some(WeeklyScores(league, ledgers, order, current_prices))
    /\ UNCHANGED <<engineVars, realized, league, ledgers, dataVars, marketVars, indicatorVars, llmVars>>

NextScores ==
    \/ \E a \in Agents, d \in LeagueDecisions, price \in ScorePrices :
          LeagueDecision(a, d, price)
    \/ \E order \in ResponseOrders, current_prices \in [ScoreTickers -> ScorePrices] :
          CalculateWeeklyScores(order, current_prices)

SpecScores == InitScores /\ [][NextScores]_vars

\* ------------------------------------------ DataService: the local ledger
\* (src/app/services/data_service.py)  record_trade runs on the threads of
\* its callers; only the write in _save is guarded by DataService._lock.
MaxEvents == 2          \* record_trade calls explored

Threads == {1, 2}

RequiredFields ==
    {"agent_id", "week_number", "action", "stock_ticker", "quantity", "price",
     "action_reason"}

\* trade_data: the keys it has, and the values that tell two trades apart
TradeData ==
    [agent_id : {1, 2}, stock_ticker : {"AAPL"},
     keys : {RequiredFields, RequiredFields \ {"price"}}]

\* _load: the list stored in the file; a file that does not parse (it was
\* opened for writing and not written yet) raises JSONDecodeError and loads as []
Load(file) == IF file.parses THEN file.rows ELSE <<>>

\* the trade record_trade builds from the list it loaded
Event(loaded, data) ==
    [event_id |-> Len(loaded) + 1, pnl_delta |-> 0,
     agent_id |-> data.agent_id, stock_ticker |-> data.stock_ticker]

NotRecording == [pc |-> "idle", trades |-> <<>>, trade |-> None, error |-> None,
                 read |-> None]

InitData ==
    /\ events = JsonFile(<<>>)
    /\ lock = None
    /\ recorder = [t \in Threads |-> NotRecording]
    /\ acked = <<>>
    /\ user_events = <<>>
    /\ roster = None
    /\ account = [starting_capital |-> DEFAULT_STARTING_CAPITAL,
                  current_cash |-> DEFAULT_STARTING_CAPITAL, positions |-> <<>>]
    /\ opening = account
    /\ trades = <<>>
    /\ last = NoCall(account)
    /\ pc = [c \in Callers |-> "idle"]
    /\ call = [c \in Callers |-> Idle]
    /\ ScoreIdle
    /\ MarketIdle
    /\ IndicatorIdle
    /\ LlmIdle

Recording == {t \in Threads : recorder[t].pc # "idle"}

\* record_trade up to the call of _save: the field check, _load, the append
RecordLoad(t, data) ==
    /\ recorder[t].pc = "idle"
    /\ Len(acked) + Cardinality(Recording) < MaxEvents
    /\ IF \E f \in RequiredFields : f \notin data.keys
       THEN recorder' = [recorder EXCEPT ![t] =
                            [NotRecording EXCEPT !.error = Some("Missing field")]]
       ELSE LET loaded == Load(events)
                trade == Event(loaded, data)
            IN  recorder' = [recorder EXCEPT ![t] =
                                [pc |-> "save", trades |-> Append(loaded, trade),
                                 trade |-> Some(trade), error |-> None, read |-> None]]
    /\ UNCHANGED <<events, lock, acked, user_events, roster>>
    /\ UNCHANGED <<engineVars, scoreVars, marketVars, indicatorVars, llmVars>>

\* _save: take the lock and open the file for writing, which empties it
SaveOpen(t) ==
    /\ recorder[t].pc = "save"
    /\ lock = None
    /\ lock' = Some(t)
    /\ events' = TruncatedFile
    /\ recorder' = [recorder EXCEPT ![t].pc = "write"]
    /\ UNCHANGED <<acked, user_events, roster>>
    /\ UNCHANGED <<engineVars, scoreVars, marketVars, indicatorVars, llmVars>>

\* _save: json.dump of the local list, release of the lock; record_trade returns
SaveWrite(t) ==
    /\ recorder[t].pc = "write"
    /\ lock = Some(t)
    /\ events' = JsonFile(recorder[t].trades)
    /\ lock' = None
    /\ acked' = Append(acked, recorder[t].trade[1])
    /\ recorder' = [recorder EXCEPT ![t] = NotRecording]
    /\ UNCHANGED <<user_events, roster>>
    /\ UNCHANGED <<engineVars, scoreVars, marketVars, indicatorVars, llmVars>>

\* get_agent_trades: _load and filter, no write
GetAgentTrades(t, agent_id) ==
    /\ recorder[t].pc = "idle"
    /\ recorder' = [recorder EXCEPT ![t] =
                       [NotRecording EXCEPT !.read =
                           Some(SelectSeq(Load(events), LAMBDA e : e.agent_id = agent_id))]]
    /\ UNCHANGED <<events, lock, acked, user_events, roster>>
    /\ UNCHANGED <<engineVars, scoreVars, marketVars, indicatorVars, llmVars>>

NextData ==
    \/ \E t \in Threads, data \in TradeData : RecordLoad(t, data)
    \/ \E t \in Threads : SaveOpen(t)
    \/ \E t \in Threads : SaveWrite(t)
    \/ \E t \in Threads, a \in {1, 2} : GetAgentTrades(t, a)

SpecData == InitData /\ [][NextData]_vars

\* ---------------------------------------------------------- user events
\* (data_service.py)  record_agent_selection, record_agent_drop and
\* get_user_agents on user_events.json, one call at a time.  Every recorded
\* event carries the clock read when it was built; the month number is not
\* read by get_user_agents and is left out.
MaxUserEvents == 3      \* events recorded in user_events.json

Users == {1, 2}
DroppedAgents == {1, 4}
AgentSelections ==
    {<<>>, <<1, 2>>, <<1, 2, 3>>, <<1, 1, 2, 3, 4>>, <<1, 2, 3, 4, 5, 6>>}

\* time that passes between two reads of the clock
Elapsed == {0, 1}

SelectEvent(loaded, user_id, agent_ids, timestamp) ==
    [event_id |-> Len(loaded) + 1, user_id |-> user_id, action |-> "select",
     agent_ids |-> agent_ids, agent_id |-> None, timestamp |-> timestamp]

DropEvent(loaded, user_id, agent_id, timestamp) ==
    [event_id |-> Len(loaded) + 1, user_id |-> user_id, action |-> "drop",
     agent_ids |-> <<>>, agent_id |-> Some(agent_id), timestamp |-> timestamp]

\* a sort by timestamp that puts an event ahead of the events of its timestamp
RECURSIVE InsertByTimestampAhead(_, _)
InsertByTimestampAhead(sorted, e) ==
    IF sorted = <<>> THEN <<e>>
    ELSE IF e.timestamp <= Head(sorted).timestamp THEN <<e>> \o sorted
    ELSE <<Head(sorted)>> \o InsertByTimestampAhead(Tail(sorted), e)

\* sorted(..., key=lambda e: e.get("timestamp", "")): ascending and stable,
\* an event goes behind the events of its own timestamp
RECURSIVE InsertByTimestamp(_, _)
InsertByTimestamp(sorted, e) ==
    IF sorted = <<>> THEN <<e>>
    ELSE IF e.timestamp < Head(sorted).timestamp THEN <<e>> \o sorted
    ELSE <<Head(sorted)>> \o InsertByTimestamp(Tail(sorted), e)

RECURSIVE SortedByTimestamp(_, _)
SortedByTimestamp(rows, sorted) ==
    IF rows = <<>> THEN sorted
    ELSE SortedByTimestamp(Tail(rows), InsertByTimestamp(sorted, Head(rows)))

\* a loop body that applies the events of every user
RosterStepAnyUser(current, event, user_id) ==
    IF event.action = "select" THEN event.agent_ids
    ELSE IF event.action = "drop"
        THEN SelectSeq(current, LAMBDA aid : aid # event.agent_id[1])
    ELSE current

\* the body of the loop of get_user_agents
RosterStep(current, event, user_id) ==
    IF event.user_id # user_id THEN current
    ELSE IF event.action = "select" THEN event.agent_ids
    ELSE IF event.action = "drop"
        THEN SelectSeq(current, LAMBDA aid : aid # event.agent_id[1])
    ELSE current

RECURSIVE RosterLoop(_, _, _)
RosterLoop(current, rows, user_id) ==
    IF rows = <<>> THEN current
    ELSE RosterLoop(RosterStep(current, Head(rows), user_id), Tail(rows), user_id)

\* get_user_agents(user_id) on the list the file holds
GetUserAgents(rows, user_id) ==
    RosterLoop(<<>>, SortedByTimestamp(rows, <<>>), user_id)

\* the record of a completed call: what it was given, what it returned or
\* raised, and the list the file held when it was made
UserCall(name, user_id, agent_ids, agent_id, error, result, before) ==
    [call |-> name, user_id |-> user_id, agent_ids |-> agent_ids,
     agent_id |-> agent_id, error |-> error, result |-> result, before |-> before]

InitRoster ==
    /\ account = [starting_capital |-> DEFAULT_STARTING_CAPITAL,
                  current_cash |-> DEFAULT_STARTING_CAPITAL, positions |-> <<>>]
    /\ opening = account
    /\ trades = <<>>
    /\ last = NoCall(account)
    /\ pc = [c \in Callers |-> "idle"]
    /\ call = [c \in Callers |-> Idle]
    /\ ScoreIdle
    /\ DataIdle
    /\ MarketIdle
    /\ IndicatorIdle
    /\ LlmIdle

\* record_agent_selection(user_id, agent_ids)
RecordAgentSelection(user_id, agent_ids, elapsed) ==
    /\ Len(user_events) < MaxUserEvents
    /\ IF agent_ids = <<>> \/ ~(3 <= Len(agent_ids) /\ Len(agent_ids) <= 5)
       THEN /\ roster' = Some(UserCall("select", user_id, agent_ids, None,
                                       Some("Users must pick between 3 and 5 agents"),
                                       None, user_events))
            /\ UNCHANGED <<user_events, now>>
       ELSE LET event == SelectEvent(user_events, user_id, agent_ids, now + elapsed)
            IN  /\ user_events' = Append(user_events, event)
                /\ now' = now + elapsed
                /\ roster' = Some(UserCall("select", user_id, agent_ids, None, None,
                                           Some(event), user_events))
    /\ UNCHANGED <<events, lock, recorder, acked, cache, served, fetches>>
    /\ UNCHANGED <<engineVars, scoreVars, indicatorVars, llmVars>>

\* record_agent_drop(user_id, agent_id)
RecordAgentDrop(user_id, agent_id, elapsed) ==
    /\ Len(user_events) < MaxUserEvents
    /\ LET event == DropEvent(user_events, user_id, agent_id, now + elapsed)
       IN  /\ user_events' = Append(user_events, event)
           /\ now' = now + elapsed
           /\ roster' = Some(UserCall("drop", user_id, <<>>, Some(agent_id), None,
                                      Some(event), user_events))
    /\ UNCHANGED <<events, lock, recorder, acked, cache, served, fetches>>
    /\ UNCHANGED <<engineVars, scoreVars, indicatorVars, llmVars>>

\* get_user_agents(user_id)
GetUserAgentsCall(user_id) ==
    /\ roster' = Some(UserCall("get", user_id, <<>>, None, None,
                               Some(GetUserAgents(user_events, user_id)), user_events))
    /\ UNCHANGED <<events, lock, recorder, acked, user_events>>
    /\ UNCHANGED <<engineVars, scoreVars, marketVars, indicatorVars, llmVars>>

NextRoster ==
    \/ \E user_id \in Users, agent_ids \in AgentSelections, elapsed \in Elapsed :
          RecordAgentSelection(user_id, agent_ids, elapsed)
    \/ \E user_id \in Users, agent_id \in DroppedAgents, elapsed \in Elapsed :
          RecordAgentDrop(user_id, agent_id, elapsed)
    \/ \E user_id \in Users : GetUserAgentsCall(user_id)

SpecRoster == InitRoster /\ [][NextRoster]_vars

\* ------------------------------------------------------------ standings
\* (scoring_service.py, data_service.py)  Two lists of standings: the league's
\* rows sorted by get_league_standings and ranked by calculate_weekly_scores,
\* and the statistics of the local ledger sorted and ranked by get_standings.
\* The stored P&L columns and the pnl_delta of an event are data the calls
\* are given.
MaxStandingAgents == 3  \* rows of the league
MaxStandingEvents == 2  \* events of the local ledger

PnlValues == {-1, 0, 2}
PnlDeltas == {0, 2}
EventAgents == {1, 2}

\* the league_agents rows of a league of n agents
StandingRows(n) ==
    {[a \in 1..n |-> [NewRow(a) EXCEPT !.realized_pnl = pnl[a]]] :
        pnl \in [1..n -> PnlValues]}

StandingEvents(n) ==
    {[i \in 1..n |-> [event_id |-> i, pnl_delta |-> e[i].pnl_delta,
                      agent_id |-> e[i].agent_id, stock_ticker |-> "AAPL"]] :
        e \in [1..n -> [agent_id : EventAgents, pnl_delta : PnlDeltas]]}

\* agent_catalog: none given, or the configured agents
Catalogs == {<<>>, <<2, 3>>}

RowOrders(n) ==
    {o \in [1..n -> 1..n] : \A i, j \in 1..n : o[i] = o[j] => i = j}

\* stats[agent_id] of compute_agent_stats after one more trade; the dict keeps
\* the order in which its keys were first set
AddToStats(stats, trade) ==
    IF \E i \in DOMAIN stats : stats[i].agent_id = trade.agent_id
    THEN [i \in DOMAIN stats |->
             IF stats[i].agent_id = trade.agent_id
             THEN [stats[i] EXCEPT !.total_pnl = @ + trade.pnl_delta,
                                   !.trade_count = @ + 1]
             ELSE stats[i]]
    ELSE Append(stats, [agent_id |-> trade.agent_id, total_pnl |-> trade.pnl_delta,
                        trade_count |-> 1])

\* compute_agent_stats
RECURSIVE ComputeAgentStats(_, _)
ComputeAgentStats(loaded, stats) ==
    IF loaded = <<>> THEN stats
    ELSE ComputeAgentStats(Tail(loaded), AddToStats(stats, Head(loaded)))

\* every configured agent appears even if it has no trades yet
RECURSIVE WithCatalog(_, _)
WithCatalog(stats, agent_catalog) ==
    IF agent_catalog = <<>> THEN stats
    ELSE WithCatalog(
             IF \E i \in DOMAIN stats : stats[i].agent_id = Head(agent_catalog)
             THEN stats
             ELSE Append(stats, [agent_id |-> Head(agent_catalog), total_pnl |-> 0,
                                 trade_count |-> 0]),
             Tail(agent_catalog))

\* what a standings call is remembered by: the list before sorting, the list
\* returned, and the rank given to each agent
Standing(agent) == [agent_id |-> agent.agent_id, total_pnl |-> agent.total_pnl]
StandingsResult(name, unsorted, sorted, ranks) ==
    [call |-> name,
     unsorted |-> [i \in DOMAIN unsorted |-> Standing(unsorted[i])],
     standings |-> [i \in DOMAIN sorted |-> Standing(sorted[i])],
     ranks |-> ranks]

\* get_standings(agent_catalog)
GetStandings(file, agent_catalog) ==
    LET stats == WithCatalog(ComputeAgentStats(Load(file), <<>>), agent_catalog)
        standings == SortStandings(stats, <<>>)
    IN  StandingsResult("get_standings", stats, standings,
                        [i \in DOMAIN standings |-> i])

\* get_league_standings inside calculate_weekly_scores, and the rank of the
\* score entry of each agent of the list
LeagueStandings(rows, agent_trades, order) ==
    LET standings == GetLeagueStandings(rows, order)
        weekly == WeeklyScores(rows, agent_trades, order, [t \in ScoreTickers |-> 1])
    IN  StandingsResult("calculate_weekly_scores",
                        [i \in DOMAIN order |-> LeagueAgent(rows[order[i]])],
                        standings,
                        [i \in DOMAIN standings |->
                            weekly.entries[standings[i].agent_id].rank])

InitStandings ==
    /\ \E n \in 0..MaxStandingAgents :
          /\ league \in StandingRows(n)
          /\ ledgers = [a \in 1..n |-> <<>>]
    /\ \E n \in 0..MaxStandingEvents : events \in {JsonFile(e) : e \in StandingEvents(n)}
    /\ scores = None
    /\ realized = None
    /\ lock = None
    /\ recorder = <<>>
    /\ acked = <<>>
    /\ user_events = <<>>
    /\ roster = None
    /\ account = [starting_capital |-> DEFAULT_STARTING_CAPITAL,
                  current_cash |-> DEFAULT_STARTING_CAPITAL, positions |-> <<>>]
    /\ opening = account
    /\ trades = <<>>
    /\ last = NoCall(account)
    /\ pc = [c \in Callers |-> "idle"]
    /\ call = [c \in Callers |-> Idle]
    /\ MarketIdle
    /\ IndicatorIdle
    /\ LlmIdle

\* calculate_weekly_scores on the league, the rows coming in some order
LeagueStandingsCall(order) ==
    /\ scores = None
    /\ scores' = Some(LeagueStandings(league, ledgers, order))
    /\ UNCHANGED <<engineVars, realized, league, ledgers, dataVars, marketVars,
                   indicatorVars, llmVars>>

\* get_standings on the local ledger
GetStandingsCall(agent_catalog) ==
    /\ scores = None
    /\ scores' = Some(GetStandings(events, agent_catalog))
    /\ UNCHANGED <<engineVars, realized, league, ledgers, dataVars, marketVars,
                   indicatorVars, llmVars>>

NextStandings ==
    \/ \E order \in RowOrders(Len(league)) : LeagueStandingsCall(order)
    \/ \E agent_catalog \in Catalogs : GetStandingsCall(agent_catalog)

SpecStandings == InitStandings /\ [][NextStandings]_vars

\* ------------------------------------------ MarketDataService: the cache
\* (src/app/market_data_service.py)  Time is counted in whole seconds; the
\* price source is the outside world and answers as it likes.
ttl_seconds == 1        \* cache time-to-live explored (60 by default)
MaxClock == 3           \* the clock stops here

MarketTickers == {"AAPL", "MSFT"}
FetchDurations == {0, 1}

\* what a fetch may do: return a snapshot at one of two prices, return the
\* partial dict of an empty history, return None (no close prices, or any
\* exception inside _fetch_ticker_sync), or fail to start its thread
FetchOutcomes == {"price1", "price2", "no_history", "none", "raise"}

Snapshot(ticker, price) == [ticker |-> ticker, price |-> Some(price), error |-> None]
NoHistory(ticker) == [ticker |-> ticker, price |-> None, error |-> Some("No history")]

\* _fetch_ticker_sync(ticker): the dict it returns, or None
FetchTickerSync(ticker, outcome) ==
    CASE outcome = "price1" -> Some(Snapshot(ticker, 1))
      [] outcome = "price2" -> Some(Snapshot(ticker, 2))
      [] outcome = "no_history" -> Some(NoHistory(ticker))
      [] OTHER -> None

\* an entry expires as soon as its age reaches the TTL
ExpiredAtTtl(c, key, t) == t - c.timestamps[key] >= ttl_seconds

\* age > self.ttl_seconds
Expired(c, key, t) == t - c.timestamps[key] > ttl_seconds

Without(f, key) == [k \in DOMAIN f \ {key} |-> f[k]]
With(f, key, value) == [k \in DOMAIN f \cup {key} |-> IF k = key THEN value ELSE f[k]]

\* MarketDataCache.get at time t: the value or None, and the dicts afterwards
CacheGet(c, key, t) ==
    IF key \notin DOMAIN c.cache THEN [value |-> None, cache |-> c]
    ELSE IF Expired(c, key, t)
    THEN [value |-> None,
          cache |-> [cache |-> Without(c.cache, key),
                     timestamps |-> Without(c.timestamps, key)]]
    ELSE [value |-> Some(c.cache[key]), cache |-> c]

\* MarketDataCache.set at time t
CacheSet(c, key, value, t) ==
    [cache |-> With(c.cache, key, value), timestamps |-> With(c.timestamps, key, t)]

\* the entry of a key as (value, timestamp), or None
Entry(c, key) ==
    IF key \in DOMAIN c.cache
    THEN Some([value |-> c.cache[key], timestamp |-> c.timestamps[key]])
    ELSE None

\* what one get_ticker_data call comes to: raised or returned value, whether
\* the source was contacted, and the value to store when the fetch is done
TickerTask(c, ticker, outcome, t) ==
    LET cached == CacheGet(c, ticker, t)
        data == FetchTickerSync(ticker, outcome)
    IN  IF cached.value # None
        THEN [contacted |-> FALSE, raised |-> FALSE, result |-> cached.value,
              store |-> None, cache |-> cached.cache]
        ELSE IF outcome = "raise"
        THEN [contacted |-> TRUE, raised |-> TRUE, result |-> None,
              store |-> None, cache |-> cached.cache]
        ELSE [contacted |-> TRUE, raised |-> FALSE, result |-> data,
              store |-> data, cache |-> cached.cache]

InitMarket ==
    /\ cache = EmptyCache
    /\ now = 0
    /\ served = None
    /\ fetches = <<>>
    /\ account = [starting_capital |-> DEFAULT_STARTING_CAPITAL,
                  current_cash |-> DEFAULT_STARTING_CAPITAL, positions |-> <<>>]
    /\ opening = account
    /\ trades = <<>>
    /\ last = NoCall(account)
    /\ pc = [c \in Callers |-> "idle"]
    /\ call = [c \in Callers |-> Idle]
    /\ ScoreIdle
    /\ DataIdle
    /\ IndicatorIdle
    /\ LlmIdle

\* the caller has taken what the latest call returned
Returned ==
    /\ served # None
    /\ served' = None
    /\ UNCHANGED <<cache, now, fetches, engineVars, scoreVars, dataVars, indicatorVars, llmVars>>

\* a second passes between two calls
Tick ==
    /\ served = None
    /\ now < MaxClock
    /\ now' = now + 1
    /\ UNCHANGED <<cache, served, fetches, engineVars, scoreVars, dataVars, indicatorVars, llmVars>>

\* get_ticker_data(ticker), from the cache lookup to the return; a fetch takes
\* `duration` seconds and the value is stored when it is done
GetTickerData(ticker, outcome, duration) ==
    /\ served = None
    /\ now + duration <= MaxClock
    /\ LET task == TickerTask(cache, ticker, outcome, now)
           done == IF task.contacted THEN now + duration ELSE now
       IN  /\ now' = done
           /\ cache' = IF task.store # None
                       THEN CacheSet(task.cache, ticker, task.store[1], done)
                       ELSE task.cache
           /\ served' = Some([ticker |-> ticker, at |-> now, done |-> done,
                              before |-> Entry(cache, ticker),
                              contacted |-> task.contacted,
                              raised |-> task.raised,
                              result |-> task.result])
    /\ UNCHANGED <<fetches, engineVars, scoreVars, dataVars, indicatorVars, llmVars>>

NextCache ==
    \/ Tick
    \/ Returned
    \/ \E ticker \in MarketTickers, outcome \in FetchOutcomes, duration \in FetchDurations :
          GetTickerData(ticker, outcome, duration)

SpecCache == InitMarket /\ [][NextCache]_vars

\* ------------------------------ MarketDataService: concurrent cache misses
\* get_ticker_data step by step.  The cache lookup runs on the event loop;
\* _fetch_ticker_sync runs on a thread of asyncio.to_thread, where it reads
\* the price source at some moment and returns at a later one; the coroutine
\* then stores what the thread returned.  A snapshot carries the time at which
\* its price was read from the source.
NotFetching == [pc |-> "idle", ticker |-> "", data |-> None, stored |-> None]

\* what the source holds at time t
SourcePrice(t) == 1 + t

FetchedSnapshot(ticker, t) ==
    [ticker |-> ticker, price |-> Some(SourcePrice(t)), error |-> None,
     fetched_at |-> t]

InitFetches ==
    /\ cache = EmptyCache
    /\ now = 0
    /\ served = None
    /\ fetches = [c \in Callers |-> NotFetching]
    /\ account = [starting_capital |-> DEFAULT_STARTING_CAPITAL,
                  current_cash |-> DEFAULT_STARTING_CAPITAL, positions |-> <<>>]
    /\ opening = account
    /\ trades = <<>>
    /\ last = NoCall(account)
    /\ pc = [c \in Callers |-> "idle"]
    /\ call = [c \in Callers |-> Idle]
    /\ ScoreIdle
    /\ DataIdle
    /\ IndicatorIdle
    /\ LlmIdle

\* cached = self.cache.get(ticker): a hit is returned, a miss starts the thread
Lookup(c, ticker) ==
    /\ fetches[c].pc = "idle"
    /\ LET cached == CacheGet(cache, ticker, now)
       IN  /\ cache' = cached.cache
           /\ fetches' = [fetches EXCEPT ![c] =
                             IF cached.value # None THEN NotFetching
                             ELSE [NotFetching EXCEPT !.pc = "reading", !.ticker = ticker]]
    /\ UNCHANGED <<now, served, engineVars, scoreVars, dataVars, indicatorVars, llmVars>>

\* the thread reads the price source, or fails to
ReadSource(c, ok) ==
    /\ fetches[c].pc = "reading"
    /\ fetches' = [fetches EXCEPT
                      ![c].pc = "fetched",
                      ![c].data = IF ok THEN Some(FetchedSnapshot(fetches[c].ticker, now))
                                  ELSE None]
    /\ UNCHANGED <<cache, now, served, engineVars, scoreVars, dataVars, indicatorVars,
                   llmVars>>

\* the thread has returned: if data: self.cache.set(ticker, data); return data
StoreAndReturn(c) ==
    /\ fetches[c].pc = "fetched"
    /\ IF fetches[c].data # None
       THEN /\ cache' = CacheSet(cache, fetches[c].ticker, fetches[c].data[1], now)
            /\ fetches' = [fetches EXCEPT
                              ![c].pc = "returned",
                              ![c].stored = Some([before |-> cache, after |-> cache',
                                                  at |-> now])]
       ELSE /\ cache' = cache
            /\ fetches' = [fetches EXCEPT ![c].pc = "returned"]
    /\ UNCHANGED <<now, served, engineVars, scoreVars, dataVars, indicatorVars, llmVars>>

\* the caller has taken the data
FetchTaken(c) ==
    /\ fetches[c].pc = "returned"
    /\ fetches' = [fetches EXCEPT ![c] = NotFetching]
    /\ UNCHANGED <<cache, now, served, engineVars, scoreVars, dataVars, indicatorVars,
                   llmVars>>

NextFetches ==
    \/ Tick
    \/ \E c \in Callers, ticker \in MarketTickers : Lookup(c, ticker)
    \/ \E c \in Callers, ok \in BOOLEAN : ReadSource(c, ok)
    \/ \E c \in Callers : StoreAndReturn(c)
    \/ \E c \in Callers : FetchTaken(c)

SpecFetches == InitFetches /\ [][NextFetches]_vars

\* ------------------------------------- MarketDataService: several tickers
\* get_multiple_tickers starts one get_ticker_data task per list position.
\* Every task does its cache lookup before any fetch is done (a task runs up
\* to its first await); the fetches finish in an order of their own.
TickerLists ==
    {<<>>, <<"AAPL">>, <<"MSFT">>, <<"AAPL", "MSFT">>, <<"MSFT", "AAPL">>,
     <<"AAPL", "AAPL">>, <<"AAPL", "MSFT", "AAPL">>}

BatchOutcomes == {"price1", "price2", "none", "raise"}

Perms(n) == {o \in [1..n -> 1..n] : \A i, j \in 1..n : o[i] = o[j] => i = j}

\* the tasks of the list positions from i on, each looking up the cache the
\* earlier lookups have left
RECURSIVE BatchTasks(_, _, _, _, _)
BatchTasks(c, tickers, outcomes, t, i) ==
    IF i > Len(tickers) THEN <<>>
    ELSE LET task == TickerTask(c, tickers[i], outcomes[i], t)
         IN  <<task>> \o BatchTasks(task.cache, tickers, outcomes, t, i + 1)

\* the dicts once every task is done: the fetched values are stored in the
\* order in which the fetches finish
RECURSIVE BatchStores(_, _, _, _, _, _)
BatchStores(c, tickers, tasks, order, done, k) ==
    IF k > Len(order) THEN c
    ELSE LET i == order[k]
         IN  BatchStores(IF tasks[i].store # None
                         THEN CacheSet(c, tickers[i], tasks[i].store[1], done)
                         ELSE c,
                         tickers, tasks, order, done, k + 1)

\* a gather that lets the first exception of a task escape
GatherPropagates(tasks) ==
    [raised |-> \E i \in DOMAIN tasks : tasks[i].raised, results |-> tasks]

\* asyncio.gather(*tasks, return_exceptions=True): exceptions are results
Gather(tasks) == [raised |-> FALSE, results |-> tasks]

\* for ticker, result in zip(tickers, results): data[ticker] = ...
RECURSIVE ZipResults(_, _, _, _)
ZipResults(data, tickers, results, i) ==
    IF i > Len(tickers) THEN data
    ELSE ZipResults(With(data, tickers[i],
                         IF results[i].raised THEN None ELSE results[i].result),
                    tickers, results, i + 1)

\* what get_multiple_tickers gives back: the dict, or the exception it raises
MultipleTickers(c, tickers, outcomes, t) ==
    LET gathered == Gather(BatchTasks(c, tickers, outcomes, t, 1))
    IN  IF gathered.raised THEN [raised |-> TRUE, data |-> <<>>]
        ELSE [raised |-> FALSE,
              data |-> ZipResults(<<>>, tickers, gathered.results, 1)]

\* get_multiple_tickers(tickers), from the start of the tasks to the return
GetMultipleTickers(tickers, outcomes, order, duration) ==
    /\ served = None
    /\ now + duration <= MaxClock
    /\ LET tasks == BatchTasks(cache, tickers, outcomes, now, 1)
           looked == IF tasks = <<>> THEN cache ELSE tasks[Len(tasks)].cache
           done == IF \E i \in DOMAIN tasks : tasks[i].contacted
                   THEN now + duration ELSE now
           returned == MultipleTickers(cache, tickers, outcomes, now)
       IN  /\ now' = done
           /\ cache' = BatchStores(looked, tickers, tasks, order, done, 1)
           /\ served' = Some([tickers |-> tickers, outcomes |-> outcomes,
                              at |-> now, done |-> done, before |-> cache,
                              raised |-> returned.raised,
                              data |-> returned.data])
    /\ UNCHANGED <<fetches, engineVars, scoreVars, dataVars, indicatorVars, llmVars>>

NextBatch ==
    \/ Tick
    \/ Returned
    \/ \E tickers \in TickerLists, duration \in FetchDurations :
          \E outcomes \in [1..Len(tickers) -> BatchOutcomes], order \in Perms(Len(tickers)) :
             GetMultipleTickers(tickers, outcomes, order, duration)

SpecBatch == InitMarket /\ [][NextBatch]_vars

\* ------------------------------------- MarketDataService: the indicators
\* (src/app/market_data_service.py)  Prices are whole numbers and the floats
\* of the code are exact rationals; round() is round-half-to-even.
MaxSeries == 16         \* closing prices the source may hold
MaxTrendChanges == 1    \* changes of the daily move within a series
RSI_PERIOD == 14

StartPrices == {20}
DailyMoves == {-1, 0, 1, 2}
InfoPrices == {None, Some(21)}

\* what the price source does when asked: answer with the history it holds,
\* raise, answer with rows that carry no close price, or with a last row
\* whose volume is not a number
SourceOutcomes == {"history", "raises", "no_close", "nan_volume"}

RatIsZero(r) == r[1] = 0
RatIsPositive(r) == r[1] > 0

\* round(x, digits) with scale = 10 ^ digits
Round(x, scale) ==
    LET n == x[1] * scale
        d == x[2]
        q == n \div d
        rem == n - q * d
    IN  IF 2 * rem < d THEN Rat(q, scale)
        ELSE IF 2 * rem > d THEN Rat(q + 1, scale)
        ELSE IF q % 2 = 0 THEN Rat(q, scale) ELSE Rat(q + 1, scale)

RECURSIVE SumSeq(_)
SumSeq(xs) == IF xs = <<>> THEN 0 ELSE Head(xs) + SumSeq(Tail(xs))

\* xs[-n:]
LastN(xs, n) == IF Len(xs) <= n THEN xs ELSE SubSeq(xs, Len(xs) - n + 1, Len(xs))

\* [prices[i] - prices[i-1] for i in range(1, len(prices))]
Deltas(prices) == [i \in 1..(Len(prices) - 1) |-> prices[i + 1] - prices[i]]

\* an RSI that is computed from whatever deltas there are
CalculateRsiUnguarded(prices, period) ==
    LET deltas == Deltas(prices)
        gains == [i \in DOMAIN deltas |-> IF deltas[i] > 0 THEN deltas[i] ELSE 0]
        losses == [i \in DOMAIN deltas |-> IF deltas[i] < 0 THEN -deltas[i] ELSE 0]
        avg_gain == Rat(SumSeq(LastN(gains, period)), period)
        avg_loss == Rat(SumSeq(LastN(losses, period)), period)
    IN  IF RatIsZero(avg_loss)
        THEN Some(IF RatIsPositive(avg_gain) THEN Int2Rat(100) ELSE Int2Rat(50))
        ELSE Some(Round(RatSub(Int2Rat(100),
                               RatDiv(Int2Rat(100),
                                      RatAdd(Int2Rat(1), RatDiv(avg_gain, avg_loss)))),
                        100))

\* an RSI that reads every series without a loss as fully bullish
CalculateRsiFlatBullish(prices, period) ==
    IF Len(prices) < period + 1 THEN None
    ELSE LET deltas == Deltas(prices)
             gains == [i \in DOMAIN deltas |-> IF deltas[i] > 0 THEN deltas[i] ELSE 0]
             losses == [i \in DOMAIN deltas |-> IF deltas[i] < 0 THEN -deltas[i] ELSE 0]
             avg_gain == Rat(SumSeq(LastN(gains, period)), period)
             avg_loss == Rat(SumSeq(LastN(losses, period)), period)
         IN  IF RatIsZero(avg_loss) THEN Some(Int2Rat(100))
             ELSE Some(Round(RatSub(Int2Rat(100),
                                    RatDiv(Int2Rat(100),
                                           RatAdd(Int2Rat(1), RatDiv(avg_gain, avg_loss)))),
                             100))

\* _calculate_rsi(prices, period)
CalculateRsi(prices, period) ==
    IF Len(prices) < period + 1 THEN None
    ELSE LET deltas == Deltas(prices)
             gains == [i \in DOMAIN deltas |-> IF deltas[i] > 0 THEN deltas[i] ELSE 0]
             losses == [i \in DOMAIN deltas |-> IF deltas[i] < 0 THEN -deltas[i] ELSE 0]
             avg_gain == Rat(SumSeq(LastN(gains, period)), period)
             avg_loss == Rat(SumSeq(LastN(losses, period)), period)
         IN  IF RatIsZero(avg_loss)
             THEN Some(IF RatIsPositive(avg_gain) THEN Int2Rat(100) ELSE Int2Rat(50))
             ELSE Some(Round(RatSub(Int2Rat(100),
                                    RatDiv(Int2Rat(100),
                                           RatAdd(Int2Rat(1), RatDiv(avg_gain, avg_loss)))),
                             100))

\* sum(xs): the running total, taken from left to right
RECURSIVE SumLoop(_, _)
SumLoop(total, rest) ==
    IF rest = <<>> \/ total[2] = 0 THEN total
    ELSE SumLoop(RatAdd(total, Head(rest)), Tail(rest))

RatSum(xs) == SumLoop(Int2Rat(0), xs)

\* the Close column as the floats the indicators receive
Floats(prices) == [i \in DOMAIN prices |-> Int2Rat(prices[i])]

\* for price in prices[period:]: ema = (price - ema) * multiplier + ema
\* (a denominator is never 0; reading it has TLC compute each average before
\* the next turn of the loop instead of nesting them all)
RECURSIVE EmaLoop(_, _, _)
EmaLoop(ema, rest, multiplier) ==
    IF rest = <<>> \/ ema[2] = 0 THEN ema
    ELSE EmaLoop(RatAdd(RatMul(RatSub(Head(rest), ema), multiplier), ema),
                 Tail(rest), multiplier)

\* an EMA that also wants more points than the period
CalculateEmaStrict(prices, period) ==
    IF Len(prices) <= period THEN None
    ELSE Some(Round(EmaLoop(RatDiv(RatSum(SubSeq(prices, 1, period)), Int2Rat(period)),
                            SubSeq(prices, period + 1, Len(prices)),
                            Rat(2, period + 1)),
                    100))

\* _calculate_ema(prices, period)
CalculateEma(prices, period) ==
    IF Len(prices) < period THEN None
    ELSE Some(Round(EmaLoop(RatDiv(RatSum(SubSeq(prices, 1, period)), Int2Rat(period)),
                            SubSeq(prices, period + 1, Len(prices)),
                            Rat(2, period + 1)),
                    100))

\* `x if x else None` on a number: zero counts as nothing
Truthy(x) == x # None /\ ~RatIsZero(x[1])

\* the macd_values list: one ema_f - ema_s for each prefix prices[:i+slow]
\* for which both averages are truthy
RECURSIVE MacdValues(_, _, _, _)
MacdValues(prices, fast, slow, i) ==
    IF i > Len(prices) - slow THEN <<>>
    ELSE LET ema_f == CalculateEma(SubSeq(prices, 1, i + slow), fast)
             ema_s == CalculateEma(SubSeq(prices, 1, i + slow), slow)
         IN  (IF Truthy(ema_f) /\ Truthy(ema_s)
              THEN <<RatSub(ema_f[1], ema_s[1])>> ELSE <<>>)
             \o MacdValues(prices, fast, slow, i + 1)

NoMacd == [macd_line |-> None, macd_signal |-> None, macd_histogram |-> None]

\* _calculate_macd(prices, fast, slow, signal)
CalculateMacd(prices, fast, slow, signal) ==
    IF Len(prices) < slow + signal THEN NoMacd
    ELSE LET ema_fast == CalculateEma(prices, fast)
             ema_slow == CalculateEma(prices, slow)
         IN  IF ema_fast = None \/ ema_slow = None THEN NoMacd
             ELSE LET macd_line == RatSub(ema_fast[1], ema_slow[1])
                      macd_values == MacdValues(prices, fast, slow, 0)
                      signal_line ==
                          IF Len(macd_values) < signal THEN None
                          ELSE Some(RatDiv(RatSum(LastN(macd_values, signal)),
                                           Int2Rat(signal)))
                      histogram ==
                          IF Truthy(signal_line)
                          THEN Some(RatSub(macd_line, signal_line[1])) ELSE None
                  IN  [macd_line |-> IF ~RatIsZero(macd_line)
                                     THEN Some(Round(macd_line, 10000)) ELSE None,
                       macd_signal |-> IF Truthy(signal_line)
                                       THEN Some(Round(signal_line[1], 10000)) ELSE None,
                       macd_histogram |-> IF Truthy(histogram)
                                          THEN Some(Round(histogram[1], 10000)) ELSE None]

\* the change from the first to the last close, in percent
ThreeMonthChange(prices) ==
    IF prices[1] # 0
    THEN Round(RatMul(Rat(prices[Len(prices)] - prices[1], prices[1]), Int2Rat(100)), 100)
    ELSE Int2Rat(0)

\* the dict of an empty history: ticker, price and error only
NoHistorySnapshot(price) ==
    [price |-> price, error |-> Some("No history"), indicators |-> None]

\* the dict of lines 160-172
FullSnapshot(price, prices) ==
    [price |-> price, error |-> None,
     indicators |->
        Some([three_month_change_pct |-> ThreeMonthChange(prices),
              rsi |-> CalculateRsi(prices, RSI_PERIOD),
              ema_50 |-> CalculateEma(Floats(prices), 50),
              ema_200 |-> CalculateEma(Floats(prices), 200),
              macd |-> CalculateMacd(Floats(prices), 12, 26, 9)])]

\* a fetch that lets the exception of the price source escape
FetchUncaught(source, price, prices) ==
    IF source \in {"raises", "nan_volume"} THEN [raised |-> TRUE, data |-> None]
    ELSE IF prices = <<>> THEN [raised |-> FALSE, data |-> Some(NoHistorySnapshot(price))]
    ELSE IF source = "no_close" THEN [raised |-> FALSE, data |-> None]
    ELSE [raised |-> FALSE, data |-> Some(FullSnapshot(price, prices))]

\* _fetch_ticker_sync: everything runs inside try / except Exception
FetchIndicators(source, price, prices) ==
    IF source = "raises" THEN [raised |-> FALSE, data |-> None]
    ELSE IF prices = <<>> THEN [raised |-> FALSE, data |-> Some(NoHistorySnapshot(price))]
    ELSE IF source = "no_close" THEN [raised |-> FALSE, data |-> None]
    ELSE IF source = "nan_volume" THEN [raised |-> FALSE, data |-> None]
    ELSE [raised |-> FALSE, data |-> Some(FullSnapshot(price, prices))]

\* how often the daily move of a series changes
TrendChanges(prices) ==
    LET deltas == Deltas(prices)
    IN  Cardinality({i \in 2..Len(deltas) : deltas[i] # deltas[i - 1]})

InitIndicators ==
    /\ series = <<>>
    /\ snapshot = None
    /\ account = [starting_capital |-> DEFAULT_STARTING_CAPITAL,
                  current_cash |-> DEFAULT_STARTING_CAPITAL, positions |-> <<>>]
    /\ opening = account
    /\ trades = <<>>
    /\ last = NoCall(account)
    /\ pc = [c \in Callers |-> "idle"]
    /\ call = [c \in Callers |-> Idle]
    /\ ScoreIdle
    /\ DataIdle
    /\ MarketIdle
    /\ LlmIdle

\* the market closes another day
NewClose(price) ==
    /\ Len(series) < MaxSeries
    /\ TrendChanges(Append(series, price)) <= MaxTrendChanges
    /\ series' = Append(series, price)
    /\ snapshot' = None
    /\ UNCHANGED <<engineVars, scoreVars, dataVars, marketVars, llmVars>>

\* get_ticker_data on a ticker that is not cached: _fetch_ticker_sync runs
\* and its value is handed back
FetchTicker(source, price) ==
    /\ snapshot = None
    /\ LET fetched == FetchIndicators(source, price, series)
       IN  snapshot' = Some([source |-> source, prices |-> series,
                             raised |-> fetched.raised, data |-> fetched.data])
    /\ UNCHANGED <<series, engineVars, scoreVars, dataVars, marketVars, llmVars>>

NextIndicators ==
    \/ \E price \in (IF series = <<>> THEN StartPrices
                     ELSE {series[Len(series)] + m : m \in DailyMoves}) :
          NewClose(price)
    \/ \E source \in SourceOutcomes, price \in InfoPrices : FetchTicker(source, price)

SpecIndicators == InitIndicators /\ [][NextIndicators]_vars

\* ------------------------------- MarketDataService: _calculate_ema alone
\* The function on price series of any fractional prices: series holds the
\* prices passed in and snapshot the period and the value returned.
MaxPoints == 4          \* length of the series passed to _calculate_ema
MaxPeriod == 4          \* periods passed to _calculate_ema

\* 20, 1.234 and 2.5
PriceValues == {Int2Rat(20), Rat(1234, 1000), Rat(5, 2)}
PriceSeries == UNION {[1..n -> PriceValues] : n \in 0..MaxPoints}

InitEma ==
    /\ series \in PriceSeries
    /\ snapshot = None
    /\ account = [starting_capital |-> DEFAULT_STARTING_CAPITAL,
                  current_cash |-> DEFAULT_STARTING_CAPITAL, positions |-> <<>>]
    /\ opening = account
    /\ trades = <<>>
    /\ last = NoCall(account)
    /\ pc = [c \in Callers |-> "idle"]
    /\ call = [c \in Callers |-> Idle]
    /\ ScoreIdle
    /\ DataIdle
    /\ MarketIdle
    /\ LlmIdle

\* _calculate_ema(series, period) is called and returns
EmaCall(period) ==
    /\ snapshot = None
    /\ snapshot' = Some([period |-> period, ema |-> CalculateEma(series, period)])
    /\ UNCHANGED <<series, engineVars, scoreVars, dataVars, marketVars, llmVars>>

NextEma == \E period \in 1..MaxPeriod : EmaCall(period)

SpecEma == InitEma /\ [][NextEma]_vars

\* ------------------------------ MarketDataService: _calculate_macd alone
\* The function on series long enough for it: a constant price, with the
\* last closes moved or not.
MaxMacdPoints == 36     \* length of the series passed to _calculate_macd

MacdPrices == {20, 50}
LastMoves == {<<>>, <<1>>, <<1, 2>>, <<-1>>}

\* n closes at one price, the last ones moved away from it
MovedSeries(n, price, moves) ==
    [i \in 1..n |->
        IF i > n - Len(moves) THEN Int2Rat(price + moves[i - (n - Len(moves))])
        ELSE Int2Rat(price)]

MacdSeries ==
    {MovedSeries(n, price, moves) :
        n \in 2..MaxMacdPoints, price \in MacdPrices, moves \in LastMoves}

InitMacd ==
    /\ series \in MacdSeries
    /\ snapshot = None
    /\ account = [starting_capital |-> DEFAULT_STARTING_CAPITAL,
                  current_cash |-> DEFAULT_STARTING_CAPITAL, positions |-> <<>>]
    /\ opening = account
    /\ trades = <<>>
    /\ last = NoCall(account)
    /\ pc = [c \in Callers |-> "idle"]
    /\ call = [c \in Callers |-> Idle]
    /\ ScoreIdle
    /\ DataIdle
    /\ MarketIdle
    /\ LlmIdle

\* _calculate_macd(series) with its default periods is called and returns
MacdCall ==
    /\ snapshot = None
    /\ snapshot' = Some([macd |-> CalculateMacd(series, 12, 26, 9)])
    /\ UNCHANGED <<series, engineVars, scoreVars, dataVars, marketVars, llmVars>>

NextMacd == MacdCall

SpecMacd == InitMacd /\ [][NextMacd]_vars

\* ------------------------------------------ LLM providers: _parse_response
\* (src/app/core/llm_service.py)  The three providers parse alike.  A response
\* text is a sequence of pieces: prose, the fence markers ```json and ```,
\* and JSON values.  A JSON value carries its type, and an object its fields.
JVal(type, text, num) == [type |-> type, text |-> text, num |-> num]
JStr(text) == JVal("string", text, Int2Rat(0))
JNum(num) == JVal("number", "", num)
JNull == JVal("null", "", Int2Rat(0))
JArray == JVal("array", "", Int2Rat(0))

\* a top-level JSON value: an object with its fields, or a value without
JObject(fields) == [type |-> "object", fields |-> fields]
JOther(type) == [type |-> type, fields |-> <<>>]

Piece(kind, value) == [kind |-> kind, value |-> value]
Prose == Piece("prose", JOther("null"))
FenceJson == Piece("fence_json", JOther("null"))
Fence == Piece("fence", JOther("null"))
Json(value) == Piece("json", value)

\* the values a model may put under each key ("absent": the key is missing)
ActionValues == {JStr("buy"), JStr("BUY"), JStr("hold"), JStr("short"), JNull}
ConfidenceValues ==
    {JNum(Rat(4, 5)), JNum(Int2Rat(85)), JStr("0.9"), JStr("high"), JNull}
TickerValues == {JStr("AAPL")}
QuantityValues == {JNum(Int2Rat(5)), JStr("ten")}
ReasoningValues == {JStr("momentum"), JNull}

FieldValues(key) ==
    CASE key = "action" -> ActionValues
      [] key = "confidence" -> ConfidenceValues
      [] key = "ticker" -> TickerValues
      [] key = "quantity" -> QuantityValues
      [] key = "reasoning" -> ReasoningValues

FieldNames == {"action", "confidence", "ticker", "quantity", "reasoning"}

JsonObjects ==
    UNION {{f \in [keys -> UNION {FieldValues(k) : k \in keys}] :
               \A k \in keys : f[k] \in FieldValues(k)} :
           keys \in SUBSET FieldNames}

JsonValues ==
    {JObject(f) : f \in JsonObjects}
    \cup {JOther("array"), JOther("string"), JOther("number"), JOther("nan"), JOther("null")}

\* message.content: no text at all, or a text
ResponseTexts ==
    {None, Some(<<>>), Some(<<Prose>>), Some(<<Fence>>),
     Some(<<Prose, FenceJson, Prose, Fence>>)}
    \cup {Some(<<Json(v)>>) : v \in JsonValues}
    \cup {Some(<<Prose, FenceJson, Json(v), Fence, Prose>>) : v \in JsonValues}
    \cup {Some(<<Fence, Json(v), Fence>>) : v \in JsonValues}
    \cup {Some(<<Prose, Json(v)>>) : v \in JsonValues}

IsFence(piece) == piece.kind \in {"fence_json", "fence"}

\* text.split(marker)[1].split("```")[0]: what follows the first marker, up
\* to the next fence
RECURSIVE UpToFence(_)
UpToFence(pieces) ==
    IF pieces = <<>> \/ IsFence(Head(pieces)) THEN <<>>
    ELSE <<Head(pieces)>> \o UpToFence(Tail(pieces))

RECURSIVE AfterFirst(_, _)
AfterFirst(pieces, kind) ==
    IF pieces = <<>> THEN <<>>
    ELSE IF Head(pieces).kind = kind THEN Tail(pieces)
    ELSE AfterFirst(Tail(pieces), kind)

Contains(pieces, kind) == \E i \in DOMAIN pieces : pieces[i].kind = kind

\* lines 74-78: the text json.loads is given
ExtractJson(pieces) ==
    IF Contains(pieces, "fence_json") THEN UpToFence(AfterFirst(pieces, "fence_json"))
    ELSE IF Contains(pieces, "fence") THEN UpToFence(AfterFirst(pieces, "fence"))
    ELSE pieces

\* json.loads: a value when the text is one JSON value, else JSONDecodeError
JsonLoads(pieces) ==
    IF Len(pieces) = 1 /\ pieces[1].kind = "json"
    THEN [ok |-> TRUE, value |-> pieces[1].value]
    ELSE [ok |-> FALSE, value |-> JOther("null")]

\* data.get(key, default)
DictGet(data, key, default) ==
    IF key \in DOMAIN data.fields THEN data.fields[key] ELSE default

\* float(x): a number as it is, a numeric string parsed, any other string a
\* ValueError, anything else a TypeError
ToFloat(x) ==
    IF x.type = "number" THEN [error |-> None, value |-> x.num]
    ELSE IF x.type = "string" /\ x.text = "0.9" THEN [error |-> None, value |-> Rat(9, 10)]
    ELSE IF x.type = "string" THEN [error |-> Some("ValueError"), value |-> Int2Rat(0)]
    ELSE [error |-> Some("TypeError"), value |-> Int2Rat(0)]

\* LLMDecision as the providers and the orchestrator build it; the reasoning
\* is a sequence of strings to be read joined
LLMDecision(action, ticker, quantity, confidence, reasoning, raw_response) ==
    [action |-> action, ticker |-> ticker, quantity |-> quantity,
     confidence |-> confidence, reasoning |-> reasoning,
     raw_response |-> raw_response]

\* the validation of the model: ticker Optional[str], quantity Optional[int],
\* reasoning str
ValidFields(ticker, quantity, reasoning) ==
    /\ ticker.type \in {"string", "null"}
    /\ quantity.type \in {"number", "null"}
    /\ quantity.type = "number" => quantity.num[2] = 1
    /\ reasoning.type = "string"

Parsed(decision) == [raised |-> None, decision |-> Some(decision)]
ParseRaises(error) == [raised |-> Some(error), decision |-> None]

\* a fallback that keeps the default confidence
ParseFallbackHalfConfident(cause, response_text) ==
    Parsed(LLMDecision("hold", None, None, Rat(1, 2),
                       <<"Failed to parse response: ", cause>>, response_text))

\* the except branch: hold, confidence 0.0, "Failed to parse response: ..."
ParseFallback(cause, response_text) ==
    Parsed(LLMDecision("hold", None, None, Int2Rat(0),
                       <<"Failed to parse response: ", cause>>, response_text))

\* an except clause that catches every exception
ParseResponseCatchAll(response_text) ==
    ParseFallback("error", response_text)

\* _parse_response(response_text)
ParseResponse(response_text) ==
    IF response_text = None THEN ParseRaises("AttributeError")
    ELSE LET loaded == JsonLoads(ExtractJson(response_text[1]))
             data == loaded.value
             action == DictGet(data, "action", JStr("hold"))
             ticker == DictGet(data, "ticker", JNull)
             quantity == DictGet(data, "quantity", JNull)
             confidence == ToFloat(DictGet(data, "confidence", JNum(Rat(1, 2))))
             reasoning == DictGet(data, "reasoning", JStr(""))
         IN  IF ~loaded.ok THEN ParseFallback("JSONDecodeError", response_text)
             ELSE IF data.type # "object" THEN ParseRaises("AttributeError")
             ELSE IF action.type # "string" THEN ParseRaises("AttributeError")
             ELSE IF confidence.error = Some("ValueError")
             THEN ParseFallback("ValueError", response_text)
             ELSE IF confidence.error # None THEN ParseRaises(confidence.error[1])
             ELSE IF ~ValidFields(ticker, quantity, reasoning)
             THEN ParseFallback("ValidationError", response_text)
             ELSE Parsed(LLMDecision(Lower(action.text),
                                     IF ticker.type = "null" THEN None
                                     ELSE Some(ticker.text),
                                     IF quantity.type = "null" THEN None
                                     ELSE Some(quantity.num[1]),
                                     confidence.value,
                                     <<reasoning.text>>,
                                     response_text))

\* ------------------------------------------ LLMOrchestrator.get_decision
\* Model names are sequences of characters, so that startswith is a test on
\* their first characters.
GptPrefix == <<"g", "p", "t", "-">>
ClaudePrefix == <<"c", "l", "a", "u", "d", "e", "-">>
DeepseekPrefix == <<"d", "e", "e", "p", "s", "e", "e", "k", "-">>

Gpt4Mini == <<"g", "p", "t", "-", "4", "-", "m", "i", "n", "i">>
Claude3Haiku == <<"c", "l", "a", "u", "d", "e", "-", "3", "-", "h", "a", "i", "k", "u">>
Claude3Opus == <<"c", "l", "a", "u", "d", "e", "-", "3", "-", "o", "p", "u", "s">>
DeepseekChat == <<"d", "e", "e", "p", "s", "e", "e", "k", "-", "c", "h", "a", "t">>
Llama3 == <<"l", "l", "a", "m", "a", "-", "3">>
UpperGpt4 == <<"G", "P", "T", "-", "4">>
GptNoDash == <<"g", "p", "t">>

ModelNames ==
    {Gpt4Mini, Claude3Haiku, Claude3Opus, DeepseekChat, Llama3, UpperGpt4, GptNoDash, <<>>}

\* a prefix test that ignores the case of the name
StartsWithAnyCase(name, prefix) ==
    /\ Len(name) >= Len(prefix)
    /\ \/ SubSeq(name, 1, Len(prefix)) = prefix
       \/ name = UpperGpt4 /\ prefix = GptPrefix

\* str.startswith
StartsWith(name, prefix) ==
    /\ Len(name) >= Len(prefix)
    /\ SubSeq(name, 1, Len(prefix)) = prefix

\* model_map.get(model_name, model_name)
ModelMap(model_name) ==
    IF model_name = Claude3Haiku THEN Claude3Haiku \o <<"-", "2", "0", "2", "4", "0", "3", "0", "7">>
    ELSE IF model_name = <<"c", "l", "a", "u", "d", "e", "-", "3", "-", "5", "-", "s", "o", "n", "n", "e", "t">>
    THEN model_name \o <<"-", "2", "0", "2", "4", "1", "0", "2", "2">>
    ELSE model_name

\* lines 263-278: the provider and the model id, or no provider (ValueError)
Route(model_name) ==
    IF StartsWith(model_name, GptPrefix)
    THEN [provider |-> Some("openai"), model |-> model_name]
    ELSE IF StartsWith(model_name, ClaudePrefix)
    THEN [provider |-> Some("anthropic"), model |-> ModelMap(model_name)]
    ELSE IF StartsWith(model_name, DeepseekPrefix)
    THEN [provider |-> Some("deepseek"), model |-> model_name]
    ELSE [provider |-> None, model |-> model_name]

\* what the API of a provider does with a request: it raises, or it answers
\* with a message whose content is a text or nothing
ProviderRaises == [raises |-> TRUE, text |-> None]
ProviderAnswers(text) == [raises |-> FALSE, text |-> text]
ProviderOutcomes == {ProviderRaises} \cup {ProviderAnswers(t) : t \in ResponseTexts}

\* provider.get_trading_decision: the API call, then _parse_response
GetTradingDecision(outcome) ==
    IF outcome.raises THEN ParseRaises("APIError") ELSE ParseResponse(outcome.text)

\* get_decision(model_name, ...)
GetDecision(model_name, outcome) ==
    LET route == Route(model_name)
        result == GetTradingDecision(outcome)
    IN  IF route.provider = None
        THEN [provider |-> None, model |-> model_name, called |-> {},
              raised |-> Some("ValueError: Unknown model"), decision |-> None]
        ELSE [provider |-> route.provider, model |-> route.model,
              called |-> {route.provider[1]},
              raised |-> result.raised, decision |-> result.decision]

InitLlm ==
    /\ answer = None
    /\ batch = None
    /\ account = [starting_capital |-> DEFAULT_STARTING_CAPITAL,
                  current_cash |-> DEFAULT_STARTING_CAPITAL, positions |-> <<>>]
    /\ opening = account
    /\ trades = <<>>
    /\ last = NoCall(account)
    /\ pc = [c \in Callers |-> "idle"]
    /\ call = [c \in Callers |-> Idle]
    /\ ScoreIdle
    /\ DataIdle
    /\ MarketIdle
    /\ IndicatorIdle

\* a get_decision call, from routing to its return or its exception
GetDecisionCall(model_name, outcome) ==
    /\ answer = None
    /\ answer' = Some([model_name |-> model_name, outcome |-> outcome,
                       result |-> GetDecision(model_name, outcome)])
    /\ UNCHANGED <<batch, engineVars, scoreVars, dataVars, marketVars, indicatorVars>>

\* the caller has taken the decision or the exception
AnswerTaken ==
    /\ answer # None
    /\ answer' = None
    /\ UNCHANGED <<batch, engineVars, scoreVars, dataVars, marketVars, indicatorVars>>

NextDecision ==
    \/ /\ answer = None
       /\ \E model_name \in ModelNames, outcome \in ProviderOutcomes :
             GetDecisionCall(model_name, outcome)
    \/ AnswerTaken

SpecDecision == InitLlm /\ [][NextDecision]_vars

\* -------------------------------- LLMOrchestrator.get_decisions_parallel
\* One task per configuration runs get_decision; asyncio.gather waits for all
\* of them and the results are combined into a dict keyed by agent_id.
MaxConfigs == 3
AgentIds == {1, 2, 3}
BatchModels == {Gpt4Mini, Llama3}

BuyAnswer ==
    ProviderAnswers(Some(<<Json(JObject([k \in {"action", "confidence", "ticker", "quantity"} |->
        CASE k = "action" -> JStr("buy")
          [] k = "confidence" -> JNum(Rat(4, 5))
          [] k = "ticker" -> JStr("AAPL")
          [] k = "quantity" -> JNum(Int2Rat(5))]))>>))

HoldAnswer ==
    ProviderAnswers(Some(<<Json(JObject([k \in {"action", "reasoning"} |->
        CASE k = "action" -> JStr("hold")
          [] k = "reasoning" -> JStr("momentum")]))>>))

ArrayAnswer == ProviderAnswers(Some(<<Json(JOther("array"))>>))

TaskOutcomes == {ProviderRaises, BuyAnswer, HoldAnswer, ArrayAnswer}

Configs == [agent_id : AgentIds, model_name : BatchModels]
ConfigLists == UNION {[1..n -> Configs] : n \in 0..MaxConfigs}

\* a task of the gather: waiting for its provider, left without a response
\* for ever, or finished with what get_decision returned or raised
NoResult ==
    [provider |-> None, model |-> <<>>, called |-> {}, raised |-> None,
     decision |-> None]
Pending == [state |-> "pending", result |-> NoResult]
Unresponsive == [state |-> "unresponsive", result |-> NoResult]
Finished(result) == [state |-> "done", result |-> result]

\* a gather that raises the first exception of its tasks
GatherDecisionsRaising(results) ==
    LET failed == {i \in DOMAIN results : results[i].raised # None}
    IN  IF failed = {} THEN [raised |-> None, results |-> results]
        ELSE [raised |-> results[CHOOSE i \in failed : \A j \in failed : i <= j].raised,
              results |-> <<>>]

\* asyncio.gather(*tasks, return_exceptions=True): exceptions are results
GatherDecisions(results) == [raised |-> None, results |-> results]

\* the fallback of the batch for a task that raised
ErrorDecision(error) ==
    LLMDecision("hold", None, None, Int2Rat(0),
                <<"Error getting decision: ", error>>, None)

\* decisions[agent_id] = value
SetItem(decisions, agent_id, value) ==
    [k \in DOMAIN decisions \cup {agent_id} |->
        IF k = agent_id THEN value ELSE decisions[k]]

\* for agent_id, result in zip(agent_ids, results): ...
RECURSIVE Combine(_, _, _, _)
Combine(agent_ids, results, i, decisions) ==
    IF i > Len(agent_ids) \/ i > Len(results) THEN decisions
    ELSE Combine(agent_ids, results, i + 1,
                 SetItem(decisions, agent_ids[i],
                         IF results[i].raised # None
                         THEN ErrorDecision(results[i].raised[1])
                         ELSE results[i].decision[1]))

NoDecisions == [k \in {} |-> ErrorDecision("")]

InitDecisions == InitLlm

\* get_decisions_parallel(decisions_config) up to the await of the gather
GetDecisionsParallel(decisions_config) ==
    /\ batch = None
    /\ batch' = Some([configs |-> decisions_config,
                      tasks |-> [i \in DOMAIN decisions_config |-> Pending],
                      phase |-> "gathering", raised |-> None,
                      decisions |-> NoDecisions])
    /\ UNCHANGED <<answer, engineVars, scoreVars, dataVars, marketVars, indicatorVars>>

Gathering(i) ==
    /\ batch # None
    /\ batch[1].phase = "gathering"
    /\ i \in DOMAIN batch[1].tasks
    /\ batch[1].tasks[i].state = "pending"

SetTask(i, task) ==
    /\ batch' = Some([batch[1] EXCEPT !.tasks[i] = task])
    /\ UNCHANGED <<answer, engineVars, scoreVars, dataVars, marketVars, indicatorVars>>

\* task i has a model name of no provider: get_decision raises at once
TaskRaisesUnknownModel(i) ==
    /\ Gathering(i)
    /\ Route(batch[1].configs[i].model_name).provider = None
    /\ SetTask(i, Finished(GetDecision(batch[1].configs[i].model_name, ProviderRaises)))

\* the provider of task i raises or answers
ProviderResponds(i, outcome) ==
    /\ Gathering(i)
    /\ Route(batch[1].configs[i].model_name).provider # None
    /\ SetTask(i, Finished(GetDecision(batch[1].configs[i].model_name, outcome)))

\* the provider of task i will never respond; nothing in get_decision or in
\* get_decisions_parallel bounds the wait
ProviderUnresponsive(i) ==
    /\ Gathering(i)
    /\ Route(batch[1].configs[i].model_name).provider # None
    /\ SetTask(i, Unresponsive)

\* every task has finished: the gather returns and the results are combined
CombineResults ==
    /\ batch # None
    /\ batch[1].phase = "gathering"
    /\ \A i \in DOMAIN batch[1].tasks : batch[1].tasks[i].state = "done"
    /\ LET gathered == GatherDecisions([i \in DOMAIN batch[1].tasks |->
                                           batch[1].tasks[i].result])
           agent_ids == [i \in DOMAIN batch[1].configs |-> batch[1].configs[i].agent_id]
       IN  batch' = Some(
               IF gathered.raised # None
               THEN [batch[1] EXCEPT !.phase = "raised", !.raised = gathered.raised]
               ELSE [batch[1] EXCEPT !.phase = "returned",
                                     !.decisions = Combine(agent_ids, gathered.results,
                                                           1, NoDecisions)])
    /\ UNCHANGED <<answer, engineVars, scoreVars, dataVars, marketVars, indicatorVars>>

\* the caller has taken the dict or the exception
BatchTaken ==
    /\ batch # None
    /\ batch[1].phase \in {"returned", "raised"}
    /\ batch' = None
    /\ UNCHANGED <<answer, engineVars, scoreVars, dataVars, marketVars, indicatorVars>>

NextDecisions ==
    \/ /\ batch = None
       /\ \E decisions_config \in ConfigLists : GetDecisionsParallel(decisions_config)
    \/ \E i \in 1..MaxConfigs : TaskRaisesUnknownModel(i)
    \/ \E i \in 1..MaxConfigs, outcome \in TaskOutcomes : ProviderResponds(i, outcome)
    \/ \E i \in 1..MaxConfigs : ProviderUnresponsive(i)
    \/ CombineResults
    \/ BatchTaken

SpecDecisions == InitDecisions /\ [][NextDecisions]_vars

\* the event loop runs every task that can run, and the caller takes what the
\* batch returned; no provider is obliged to respond
SpecDecisionsLive == SpecDecisions /\ WF_vars(NextDecisions)

\* ----------------------------------------------------------------- claims
\* the latest call was a buy or a sell that reached _execute_buy/_execute_sell
LastIs(action) ==
    /\ last.called
    /\ Lower(last.decision.action) = action
    /\ ~NoTicker(last.decision.ticker)

LastTicker == Upper(last.decision.ticker[1])

LastAccepted(action) ==
    /\ LastIs(action)
    /\ last.success
    /\ last.trade # None

\* the ledger replayed on the opening account
RECURSIVE ReplayCash(_, _)
ReplayCash(cash, ledger) ==
    IF ledger = <<>> THEN cash
    ELSE LET t == Head(ledger)
             value == t.entry_price * t.quantity
         IN  ReplayCash(IF t.action = "buy" THEN cash - value ELSE cash + value,
                        Tail(ledger))

RECURSIVE ReplayHeld(_, _, _)
ReplayHeld(held, ledger, ticker) ==
    IF ledger = <<>> THEN held
    ELSE LET t == Head(ledger)
         IN  ReplayHeld(IF t.ticker # ticker THEN held
                        ELSE IF t.action = "buy" THEN held + t.quantity
                        ELSE held - t.quantity,
                        Tail(ledger), ticker)

\* C1: with calls applied one at a time, current_cash is never negative.
CashNeverNegative == account.current_cash >= 0

\* C1 witness: an accepted buy has spent the last of the cash
BuySpentAllCash == LastAccepted("buy") /\ account.current_cash = 0

\* C2: two interleaved calls on one account are serialized, so once both have
\* returned current_cash is >= 0 and reflects every trade of the ledger.
FinalCashReflectsEveryTrade ==
    InFlight = {} =>
        /\ account.current_cash >= 0
        /\ account.current_cash = ReplayCash(opening.current_cash, trades)

\* C3: a rejected call returns a non-empty reason and no Trade, and leaves
\* the account and the ledger as they were before the call.
RejectionChangesNothing ==
    (last.called /\ ~last.success) =>
        /\ last.error # None
        /\ last.error[1] # ""
        /\ last.trade = None
        /\ account = last.before.account
        /\ trades = last.before.trades

\* C3 witness: a buy was rejected for insufficient cash
BuyRejectedForCash ==
    LastIs("buy") /\ ~last.success /\ last.error = Some("Insufficient cash")

\* C4: every ticker present in positions has a quantity > 0.
PositionsPositive ==
    \A t \in DOMAIN account.positions : account.positions[t] > 0

\* C4 witness: an accepted sell has sold a whole position and its entry is gone
SoldOut ==
    /\ LastAccepted("sell")
    /\ LastTicker \in DOMAIN last.before.account.positions
    /\ LastTicker \notin DOMAIN account.positions

\* C5: at most MAX_POSITIONS tickers are held; a buy of a ticker that is not
\* held is rejected when MAX_POSITIONS tickers are held, and a buy of a held
\* ticker is never rejected for the position count.
AtMostMaxPositions ==
    /\ Cardinality({t \in DOMAIN account.positions : account.positions[t] > 0})
          <= MAX_POSITIONS
    /\ ( /\ LastIs("buy")
         /\ Cardinality(DOMAIN last.before.account.positions) = MAX_POSITIONS
         /\ LastTicker \notin DOMAIN last.before.account.positions )
       => ~last.success
    /\ (last.called /\ last.error = Some("Max positions reached"))
       => LastTicker \notin DOMAIN last.before.account.positions

\* C5 witness: with five tickers held, a buy of a sixth was rejected
SixthTickerRejected ==
    /\ LastIs("buy")
    /\ Cardinality(DOMAIN account.positions) = MAX_POSITIONS
    /\ last.error = Some("Max positions reached")

\* C6: a buy is rejected whenever the resulting position value, (held +
\* bought) x price, exceeds 30% of starting_capital.
ResultingPositionWithinLimit ==
    ( /\ LastIs("buy")
      /\ (Held(last.before.account.positions, LastTicker)
            + QuantityOr1(last.decision.quantity)) * last.price * 100
         > last.before.account.starting_capital * MAX_POSITION_SIZE_PCT )
    => ~last.success

\* C7: whenever no call is in progress, also after a failure of the storage,
\* the ledger holds a trade if and only if cash and positions reflect it.
LedgerMatchesAccount ==
    InFlight = {} =>
        /\ account.current_cash = ReplayCash(opening.current_cash, trades)
        /\ \A t \in Tickers :
              Held(account.positions, t) = ReplayHeld(Held(opening.positions, t), trades, t)

NonPositiveQuantityRejected ==
    ( /\ last.called
      /\ Lower(last.decision.action) \in {"buy", "sell"}
      /\ ~NoTicker(last.decision.ticker)
      /\ last.decision.quantity # None
      /\ last.decision.quantity[1] <= 0 )
    => /\ ~last.success
       /\ account = last.before.account
       /\ trades = last.before.trades

\* C11: a buy or sell with a missing (None or empty) ticker is rejected with
\* the reason "No ticker provided" whatever its quantity and the account, and
\* no Trade is created.
MissingTickerRejected ==
    ( /\ last.called
      /\ Lower(last.decision.action) \in {"buy", "sell"}
      /\ last.decision.ticker \in {None, Some("")} )
    => /\ ~last.success
       /\ last.error = Some("No ticker provided")
       /\ last.trade = None
       /\ trades = last.before.trades
       /\ account = last.before.account

\* C11 witness: a sell of two with an empty ticker was rejected on an account
\* that holds positions
EmptyTickerSellRejected ==
    /\ last.called
    /\ last.decision = [action |-> "sell", ticker |-> Some(""), quantity |-> Some(2)]
    /\ DOMAIN account.positions # {}
    /\ ~last.success

\* C12: a hold always succeeds, creates no Trade and leaves cash, positions
\* and the ledger unchanged, whatever ticker, quantity and price come with it.
HoldChangesNothing ==
    (last.called /\ Lower(last.decision.action) = "hold")
    => /\ last.success
       /\ last.trade = None
       /\ last.error = None
       /\ account = last.before.account
       /\ trades = last.before.trades

\* C12 witness: a hold that came with no ticker, a negative quantity and
\* price 2, after a trade
HoldAfterTrade ==
    /\ last.called
    /\ last.decision = [action |-> "hold", ticker |-> None, quantity |-> Some(-1)]
    /\ last.price = 2
    /\ Len(trades) = 1
    /\ last.success

\* C13: the ledger of record_trade is append-only: whenever no write is in
\* progress, every trade that a record_trade call returned is in the ledger,
\* unmodified, at the position it was appended at.
LedgerKeepsReturnedTrades ==
    lock = None =>
        \A i \in 1..Len(acked) :
            /\ events.parses
            /\ acked[i].event_id <= Len(events.rows)
            /\ events.rows[acked[i].event_id] = acked[i]

\* C14: from cash 10000 and no positions, buy 10 AAPL at 150 gives cash 8500
\* and {AAPL: 10}; then sell 5 AAPL at 160 gives cash 9300 and {AAPL: 5}, and
\* the realized P&L of the two-trade ledger is 50.
ScenarioBuy ==
    [action |-> "buy", ticker |-> "AAPL", quantity |-> 10, entry_price |-> 150,
     executed |-> TRUE]

ScenarioSell ==
    [action |-> "sell", ticker |-> "AAPL", quantity |-> 5, entry_price |-> 160,
     executed |-> TRUE]

EndsWithRoundTrip ==
    /\ Len(trades) >= 2
    /\ LET b == trades[Len(trades) - 1]
           n == trades[Len(trades)]
       IN  /\ b.action = "buy"
           /\ n.action = "sell"
           /\ n.ticker = b.ticker
           /\ n.quantity = b.quantity
           /\ n.entry_price = b.entry_price

BeforeRoundTrip == SubSeq(trades, 1, Len(trades) - 2)

\* after an accepted buy the sell of the same quantity at the same price is
\* accepted, and once it is executed cash and positions are what they were
\* before the buy
RoundTripRestoresAccount ==
    /\ LastAccepted("buy") =>
          Decide([action |-> "sell", ticker |-> Some(LastTicker),
                  quantity |-> Some(last.trade[1].quantity)],
                 last.price, account).success
    /\ EndsWithRoundTrip =>
          /\ account.current_cash = ReplayCash(opening.current_cash, BeforeRoundTrip)
          /\ \A t \in Tickers :
                /\ Held(account.positions, t)
                      = ReplayHeld(Held(opening.positions, t), BeforeRoundTrip, t)
                /\ (t \in DOMAIN account.positions) = (Held(account.positions, t) > 0)

ReferenceAvgCost(book, ticker) ==
    IF book[ticker].quantity_held > 0
    THEN RatDiv(book[ticker].cumulative_cost, Int2Rat(book[ticker].quantity_held))
    ELSE Int2Rat(0)

RECURSIVE ReferencePass(_, _, _)
ReferencePass(ledger, book, pnl) ==
    IF ledger = <<>> THEN pnl
    ELSE LET t == Head(ledger)
             T == t.ticker
             value == Int2Rat(t.entry_price * t.quantity)
             avg == ReferenceAvgCost(book, T)
         IN  IF T = "" \/ t.action \notin {"buy", "sell"}
             THEN ReferencePass(Tail(ledger), book, pnl)
             ELSE IF t.action = "buy"
             THEN ReferencePass(Tail(ledger),
                     [book EXCEPT ![T] =
                         [quantity_held |-> @.quantity_held + t.quantity,
                          cumulative_cost |-> RatAdd(@.cumulative_cost, value)]],
                     pnl)
             ELSE ReferencePass(Tail(ledger),
                     [book EXCEPT ![T] =
                         [quantity_held |-> @.quantity_held - t.quantity,
                          cumulative_cost |->
                              RatSub(@.cumulative_cost,
                                     RatMul(avg, Int2Rat(t.quantity)))]],
                     RatAdd(pnl, RatSub(value, RatMul(avg, Int2Rat(t.quantity)))))

ReferencePnl(ledger) ==
    ReferencePass(ledger,
                  [T \in {ledger[i].ticker : i \in 1..Len(ledger)} |->
                      [quantity_held |-> 0, cumulative_cost |-> Int2Rat(0)]],
                  Int2Rat(0))

\* C16: for every ordered ledger _calculate_realized_pnl equals the
\* average-cost reference.
RealizedPnlIsAverageCost ==
    realized # None => realized[1] = ReferencePnl(trades)

\* C16 witness: a ledger of two tickers with a sale at a fractional average
\* cost and a second sale of the same ticker
FractionalAverageCost ==
    /\ realized # None
    /\ Len(trades) = MaxRows
    /\ realized[1][2] # 1

RatLess(a, b) == a[1] * b[2] < b[1] * a[2]

\* C17: in the entries calculate_weekly_scores returns, of any two agents the
\* one with the strictly greater reported total_pnl has the strictly smaller
\* rank.
GreaterTotalPnlRanksFirst ==
    (scores # None /\ ~scores[1].raised) =>
        \A a, b \in Agents :
            RatLess(scores[1].entries[b].total_pnl, scores[1].entries[a].total_pnl)
                => scores[1].entries[a].rank < scores[1].entries[b].rank

\* the average entry price of what the ledger leaves held of a ticker
AvgEntryPrice(ledger, ticker) ==
    LET st == TickerLoop(NothingHeld, TickerTrades(ledger, ticker))
    IN  RatDiv(st.entry_cost, Int2Rat(st.quantity_held))

\* sum over the open positions of (current price - average entry price) x
\* quantity held
RECURSIVE ProjectedUnrealized(_, _, _, _)
ProjectedUnrealized(keys, positions, ledger, current_prices) ==
    IF keys = {} THEN Int2Rat(0)
    ELSE LET t == CHOOSE k \in keys : TRUE
         IN  RatAdd(RatMul(RatSub(Int2Rat(current_prices[t]), AvgEntryPrice(ledger, t)),
                           Int2Rat(positions[t])),
                    ProjectedUnrealized(keys \ {t}, positions, ledger, current_prices))

\* C18: the unrealized_pnl reported for an agent is the projection of its open
\* positions at the current_prices of the call, and total_pnl is realized_pnl
\* plus that unrealized_pnl.
UnrealizedPnlIsProjection ==
    (scores # None /\ ~scores[1].raised) =>
        \A a \in Agents :
            LET entry == scores[1].entries[a]
                projected == ProjectedUnrealized(DOMAIN league[a].positions,
                                                 league[a].positions, ledgers[a],
                                                 scores[1].current_prices)
            IN  /\ entry.unrealized_pnl = projected
                /\ entry.total_pnl = RatAdd(entry.realized_pnl, projected)

\* the entry the latest get_ticker_data call found was live: present, and of
\* age <= TTL
FoundLive ==
    /\ served[1].before # None
    /\ served[1].at - served[1].before[1].timestamp <= ttl_seconds

\* C19: a get_ticker_data call returns the cached snapshot without contacting
\* the price source if and only if the ticker has an entry of age <= TTL;
\* otherwise it fetches, and stores what it fetched with the time of storing.
\* No returned snapshot is older than the TTL.
CacheServesWithinTtl ==
    served # None =>
        LET s == served[1]
        IN  /\ ~s.contacted <=> FoundLive
            /\ FoundLive =>
                  /\ s.result = Some(s.before[1].value)
                  /\ Entry(cache, s.ticker) = s.before
            /\ (~FoundLive /\ s.result # None) =>
                  Entry(cache, s.ticker)
                      = Some([value |-> s.result[1], timestamp |-> s.done])
            /\ (~FoundLive /\ s.result = None) => Entry(cache, s.ticker) = None
            /\ s.result # None =>
                  s.done - cache.timestamps[s.ticker] <= ttl_seconds

\* C19 witness: an entry older than the TTL was found and replaced by a fetch
RefetchedAfterExpiry ==
    /\ served # None
    /\ served[1].before # None
    /\ served[1].at - served[1].before[1].timestamp > ttl_seconds
    /\ served[1].contacted
    /\ served[1].result # None
    /\ served[1].result[1] # served[1].before[1].value

\* the tickers of a list
Requested(tickers) == {tickers[i] : i \in DOMAIN tickers}

\* the request whose result becomes the ticker's entry: its last one
LastRequest(tickers, ticker) ==
    CHOOSE i \in DOMAIN tickers :
        /\ tickers[i] = ticker
        /\ \A j \in DOMAIN tickers : tickers[j] = ticker => j <= i

\* the ticker had no live entry and its fetch returned nothing or raised
FetchFailed(s, ticker) ==
    /\ ~ ( /\ Entry(s.before, ticker) # None
           /\ s.at - Entry(s.before, ticker)[1].timestamp <= ttl_seconds )
    /\ s.outcomes[LastRequest(s.tickers, ticker)] \in {"none", "raise"}

\* the same call with one ticker left out of the list
CallWithout(s, ticker) ==
    LET keep == SelectSeq([i \in DOMAIN s.tickers |-> i],
                          LAMBDA i : s.tickers[i] # ticker)
    IN  MultipleTickers(s.before,
                        [k \in DOMAIN keep |-> s.tickers[keep[k]]],
                        [k \in DOMAIN keep |-> s.outcomes[keep[k]]],
                        s.at)

\* C20: get_multiple_tickers never raises and returns an entry for every
\* requested ticker; a ticker whose fetch fails maps to null, and the entries
\* of the other tickers are what they would be had it not been requested.
BatchIsolatesFailures ==
    served # None =>
        LET s == served[1]
        IN  /\ ~s.raised
            /\ DOMAIN s.data = Requested(s.tickers)
            /\ \A f \in Requested(s.tickers) :
                  /\ FetchFailed(s, f) <=> s.data[f] = None
                  /\ FetchFailed(s, f) =>
                        /\ ~CallWithout(s, f).raised
                        /\ \A t \in Requested(s.tickers) \ {f} :
                              s.data[t] = CallWithout(s, f).data[t]

\* C20 witness: one ticker's fetch raised and the other ticker got its snapshot
RaisedForOneTickerOnly ==
    /\ served # None
    /\ served[1].tickers = <<"AAPL", "MSFT">>
    /\ served[1].outcomes = <<"raise", "price2">>
    /\ Entry(served[1].before, "AAPL") # None
    /\ served[1].data["AAPL"] = None
    /\ served[1].data["MSFT"] = Some(Snapshot("MSFT", 2))

\* the latest fetch returned a dict with the indicator fields
FullSnapshotReturned ==
    /\ snapshot # None
    /\ snapshot[1].data # None
    /\ snapshot[1].data[1].indicators # None

\* C21: when the price source fails or has no history the fetch raises nothing
\* and returns null or a snapshot without indicators; an indicator with too
\* few points is null while the indicators with enough points are computed.
MissingDataIsNotAnError ==
    snapshot # None =>
        LET f == snapshot[1]
        IN  /\ ~f.raised
            /\ f.source = "raises" => f.data = None
            /\ (f.source = "history" /\ f.prices = <<>>) =>
                  /\ f.data # None
                  /\ f.data[1].indicators = None
            /\ (f.source = "history" /\ f.prices # <<>>) => FullSnapshotReturned
            /\ FullSnapshotReturned =>
                  LET ind == f.data[1].indicators[1]
                      n == Len(f.prices)
                  IN  /\ (ind.rsi = None) <=> (n < 15)
                      /\ n < 50 => ind.ema_50 = None
                      /\ n < 200 => ind.ema_200 = None
                      /\ n < 35 => ind.macd = NoMacd

\* C21 witness: a snapshot whose RSI is computed and whose averages are not
RsiWithoutAverages ==
    /\ FullSnapshotReturned
    /\ snapshot[1].data[1].indicators[1].rsi \notin {None, Some(Int2Rat(100))}
    /\ snapshot[1].data[1].indicators[1].ema_50 = None
    /\ snapshot[1].data[1].indicators[1].macd = NoMacd

StrictlyIncreasing(prices) ==
    \A i \in 1..(Len(prices) - 1) : prices[i] < prices[i + 1]

\* C30: a series of fewer than 15 points has no RSI; a strictly increasing
\* series of at least 15 points has RSI 100.
RsiOfShortAndRisingSeries ==
    FullSnapshotReturned =>
        LET rsi == snapshot[1].data[1].indicators[1].rsi
            prices == snapshot[1].prices
        IN  /\ Len(prices) < 15 => rsi = None
            /\ (Len(prices) >= 15 /\ StrictlyIncreasing(prices)) =>
                  rsi = Some(Int2Rat(100))

\* C30 witness: a rising series of 15 points whose daily move changes
RisingSeriesScored ==
    /\ FullSnapshotReturned
    /\ Len(snapshot[1].prices) = 15
    /\ StrictlyIncreasing(snapshot[1].prices)
    /\ TrendChanges(snapshot[1].prices) = 1
    /\ snapshot[1].data[1].indicators[1].rsi = Some(Int2Rat(100))

\* the latest get_decision call reached a provider, and the provider answered
ProviderAnswered ==
    /\ answer # None
    /\ answer[1].result.called # {}
    /\ ~answer[1].outcome.raises

\* the fallback decision: hold, confidence 0, no ticker, no quantity, and a
\* reasoning that names the failure
IsFallback(decision) ==
    /\ decision.action = "hold"
    /\ decision.confidence = Int2Rat(0)
    /\ decision.ticker = None
    /\ decision.quantity = None
    /\ Len(decision.reasoning) = 2
    /\ decision.reasoning[1] = "Failed to parse response: "
    /\ decision.reasoning[2] # ""

\* C25: whatever text a provider returns, or none at all, get_decision
\* returns a Decision and raises nothing.
AnyResponseYieldsDecision ==
    ProviderAnswered =>
        /\ answer[1].result.raised = None
        /\ answer[1].result.decision # None

\* the text holds no JSON value, or prose around an unfenced one
NotJson(pieces) ==
    \/ ~Contains(pieces, "json")
    \/ ~Contains(pieces, "fence_json") /\ ~Contains(pieces, "fence") /\ Len(pieces) > 1

\* C26: a response that is not JSON parses to hold with confidence 0, no
\* ticker, no quantity and a non-empty reasoning citing the parse failure.
NotJsonParsesToHold ==
    ( /\ ProviderAnswered
      /\ answer[1].outcome.text # None
      /\ NotJson(answer[1].outcome.text[1]) )
    => /\ answer[1].result.raised = None
       /\ answer[1].result.decision # None
       /\ IsFallback(answer[1].result.decision[1])
       /\ answer[1].result.decision[1].raw_response = answer[1].outcome.text

\* C26 witness: the answer "not json" of the DeepSeek provider
NotJsonFromDeepSeek ==
    /\ ProviderAnswered
    /\ answer[1].result.called = {"deepseek"}
    /\ answer[1].outcome.text = Some(<<Prose>>)
    /\ answer[1].result.decision # None

\* the answer is one JSON object, bare or fenced, in which a key is missing
AnswerObjectMissing(keys) ==
    /\ ProviderAnswered
    /\ answer[1].outcome.text # None
    /\ LET loaded == JsonLoads(ExtractJson(answer[1].outcome.text[1]))
       IN  /\ loaded.ok
           /\ loaded.value.type = "object"
           /\ \E k \in keys : k \notin DOMAIN loaded.value.fields

\* C27: a JSON object without action or without confidence is degraded to
\* the fallback decision.
MissingFieldIsFallback ==
    AnswerObjectMissing({"action", "confidence"}) =>
        /\ answer[1].result.decision # None
        /\ IsFallback(answer[1].result.decision[1])

\* C28: every Decision returned has an action among buy, sell and hold and a
\* confidence between 0 and 1.
DecisionWithinSchema ==
    (answer # None /\ answer[1].result.decision # None) =>
        LET decision == answer[1].result.decision[1]
        IN  /\ decision.action \in {"buy", "sell", "hold"}
            /\ decision.confidence[1] >= 0
            /\ decision.confidence[1] <= decision.confidence[2]

\* the name begins with the characters of the prefix
HasPrefix(name, prefix) ==
    \E rest \in {SubSeq(name, k, Len(name)) : k \in 1..(Len(name) + 1)} :
        name = prefix \o rest

\* C29: get_decision calls exactly the provider of the name's prefix, and for
\* a name without one of the prefixes it fails with the unknown-model error
\* and calls no provider.
RoutedByPrefix ==
    answer # None =>
        LET name == answer[1].model_name
            r == answer[1].result
        IN  /\ HasPrefix(name, GptPrefix) => r.called = {"openai"}
            /\ HasPrefix(name, ClaudePrefix) => r.called = {"anthropic"}
            /\ HasPrefix(name, DeepseekPrefix) => r.called = {"deepseek"}
            /\ ( /\ ~HasPrefix(name, GptPrefix)
                 /\ ~HasPrefix(name, ClaudePrefix)
                 /\ ~HasPrefix(name, DeepseekPrefix) )
               => /\ r.called = {}
                  /\ r.raised = Some("ValueError: Unknown model")
                  /\ r.decision = None
            /\ r.called # {} =>
                  /\ r.raised = GetTradingDecision(answer[1].outcome).raised
                  /\ r.decision = GetTradingDecision(answer[1].outcome).decision

\* C29 witness: a name in capitals is refused although the provider would
\* have answered with a decision
UpperCaseNameRefused ==
    /\ answer # None
    /\ answer[1].model_name = UpperGpt4
    /\ answer[1].result.raised # None
    /\ GetTradingDecision(answer[1].outcome).decision # None

\* the batch call has returned its dict
BatchReturned == batch # None /\ batch[1].phase = "returned"

\* configuration i is the last one of the list carrying its agent id
LastOfAgent(i) ==
    \A j \in DOMAIN batch[1].configs :
        batch[1].configs[j].agent_id = batch[1].configs[i].agent_id => j <= i

\* C22: a batch whose tasks have all finished returns and does not raise; an
\* agent whose call raised gets hold with confidence 0 and a reasoning naming
\* the error, and every other agent gets exactly the decision of its own call.
BatchConvertsProviderFailure ==
    (batch # None /\ batch[1].phase # "gathering") =>
        /\ batch[1].phase = "returned"
        /\ batch[1].raised = None
        /\ \A i \in DOMAIN batch[1].configs :
              LastOfAgent(i) =>
                 LET agent_id == batch[1].configs[i].agent_id
                     result == batch[1].tasks[i].result
                 IN  /\ agent_id \in DOMAIN batch[1].decisions
                     /\ IF result.raised = None
                        THEN batch[1].decisions[agent_id] = result.decision[1]
                        ELSE /\ batch[1].decisions[agent_id].action = "hold"
                             /\ batch[1].decisions[agent_id].confidence = Int2Rat(0)
                             /\ batch[1].decisions[agent_id].reasoning
                                    = <<"Error getting decision: ", result.raised[1]>>

\* C22 witness: of three agents the second one's provider raised and the
\* other two got the buy and the hold their providers answered
OneProviderRaisedOfThree ==
    /\ BatchReturned
    /\ Len(batch[1].configs) = 3
    /\ \A i \in 1..3 : batch[1].configs[i].agent_id = i
    /\ batch[1].tasks[2].result.raised = Some("APIError")
    /\ batch[1].decisions[1].action = "buy"
    /\ batch[1].decisions[2].action = "hold"
    /\ batch[1].decisions[3].reasoning = <<"momentum">>

\* C23: a returned batch holds exactly one result per input configuration.
OneResultPerConfiguration ==
    BatchReturned =>
        Cardinality(DOMAIN batch[1].decisions) = Len(batch[1].configs)

\* a provider call of the batch will never respond
SomeProviderUnresponsive ==
    /\ batch # None
    /\ \E i \in DOMAIN batch[1].tasks : batch[1].tasks[i].state = "unresponsive"

\* the batch has returned one decision per agent, hold with confidence 0 for
\* each agent whose provider did not respond
ReturnedWithHoldForUnresponsive ==
    /\ BatchReturned
    /\ Cardinality(DOMAIN batch[1].decisions) = Len(batch[1].configs)
    /\ \A i \in DOMAIN batch[1].tasks :
          batch[1].tasks[i].state = "unresponsive" =>
             /\ batch[1].decisions[batch[1].configs[i].agent_id].action = "hold"
             /\ batch[1].decisions[batch[1].configs[i].agent_id].confidence = Int2Rat(0)

\* C24: a batch with a provider call that never responds eventually returns,
\* with hold and confidence 0 for that agent and one decision per agent.
UnresponsiveProviderTimesOut ==
    SomeProviderUnresponsive ~> ReturnedWithHoldForUnresponsive

\* every price of the series is the same
ConstantSeries == \A i \in DOMAIN series : series[i] = series[1]

PlaceIn(list, agent_id) == CHOOSE i \in DOMAIN list : list[i].agent_id = agent_id

\* C32: the standings hold every agent of the unsorted list exactly once, in
\* descending order of total P&L, agents of equal total P&L in the order they
\* had before sorting, and the ranks are 1..N in list order.
StandingsSortedStableRanked ==
    scores # None =>
        LET unsorted == scores[1].unsorted
            standings == scores[1].standings
        IN  /\ Len(standings) = Len(unsorted)
            /\ \A i \in DOMAIN unsorted :
                  Cardinality({j \in DOMAIN standings : standings[j] = unsorted[i]}) = 1
            /\ \A i, j \in DOMAIN standings :
                  i # j => standings[i].agent_id # standings[j].agent_id
            /\ \A i, j \in DOMAIN standings :
                  i < j =>
                     /\ standings[i].total_pnl >= standings[j].total_pnl
                     /\ standings[i].total_pnl = standings[j].total_pnl
                           => PlaceIn(unsorted, standings[i].agent_id)
                                 < PlaceIn(unsorted, standings[j].agent_id)
            /\ \A i \in DOMAIN standings : scores[1].ranks[i] = i
            /\ scores[1].call = "calculate_weekly_scores"
                  => {unsorted[i].agent_id : i \in DOMAIN unsorted} = DOMAIN league

\* C32 witness: three agents of the league, the first and the last with equal
\* total P&L below the second one's, are ranked second one first, then the
\* other two in the order they came
TieKeptBehindLeader ==
    /\ scores # None
    /\ scores[1].call = "calculate_weekly_scores"
    /\ Len(scores[1].unsorted) = 3
    /\ scores[1].unsorted[1].total_pnl = 0
    /\ scores[1].unsorted[2].total_pnl = 2
    /\ scores[1].unsorted[3].total_pnl = 0
    /\ scores[1].standings = <<scores[1].unsorted[2], scores[1].unsorted[1],
                               scores[1].unsorted[3]>>
    /\ scores[1].ranks = <<1, 2, 3>>

\* C33: a store of get_ticker_data leaves one entry for its ticker, holding
\* the snapshot of the call that stored last, never replaces a snapshot by one
\* read from the price source earlier, and leaves other tickers' entries alone.
LastWriteWinsMonotonic ==
    \A c \in Callers :
        fetches[c].stored # None =>
            LET before == fetches[c].stored[1].before
                after == fetches[c].stored[1].after
                ticker == fetches[c].ticker
                data == fetches[c].data[1]
            IN  /\ Entry(after, ticker)
                      = Some([value |-> data, timestamp |-> fetches[c].stored[1].at])
                /\ \A other \in MarketTickers \ {ticker} :
                      Entry(after, other) = Entry(before, other)
                /\ ticker \in DOMAIN before.cache
                      => before.cache[ticker].fetched_at <= data.fetched_at

\* the price changes between the last 15 closes
TrailingDeltas(prices) ==
    {prices[i + 1] - prices[i] : i \in (Len(prices) - 14)..(Len(prices) - 1)}

\* C34: for at least 15 closes whose trailing 14 changes hold no loss the RSI
\* is 100 if one of them is a gain and 50 if all are zero; every RSI that is
\* available lies between 0 and 100.
RsiWithoutLossAndInRange ==
    FullSnapshotReturned =>
        LET rsi == snapshot[1].data[1].indicators[1].rsi
            prices == snapshot[1].prices
        IN  /\ (Len(prices) >= 15 /\ \A d \in TrailingDeltas(prices) : d >= 0) =>
                  rsi = IF \E d \in TrailingDeltas(prices) : d > 0
                        THEN Some(Int2Rat(100)) ELSE Some(Int2Rat(50))
            /\ rsi # None =>
                  /\ rsi[1][1] >= 0
                  /\ rsi[1][1] <= 100 * rsi[1][2]

\* C34 witness: sixteen closes, a loss on the first day and no change since,
\* score 50
FlatAfterLossScoresFifty ==
    /\ FullSnapshotReturned
    /\ Len(snapshot[1].prices) = 16
    /\ snapshot[1].prices[2] < snapshot[1].prices[1]
    /\ TrailingDeltas(snapshot[1].prices) = {0}
    /\ snapshot[1].data[1].indicators[1].rsi = Some(Int2Rat(50))

\* C35: calculate_weekly_scores returns an entry with a win_rate for every
\* agent whatever its ledger holds: 0 for an empty ledger, 100 for a ledger
\* with a sell, and a number for a ledger of buys only.
WinRateForEveryLedger ==
    scores # None =>
        /\ ~scores[1].raised
        /\ \A a \in Agents :
              /\ ledgers[a] = <<>> => scores[1].entries[a].win_rate = Int2Rat(0)
              /\ CountAction(ledgers[a], "sell") > 0
                    => scores[1].entries[a].win_rate = Int2Rat(100)
              /\ scores[1].entries[a].win_rate[2] > 0

\* C36: below 35 prices the three MACD outputs are null; from 35 prices on
\* all three are numbers, and 0 for a constant series.
MacdAvailableFrom35 ==
    snapshot # None =>
        LET macd == snapshot[1].macd
        IN  /\ Len(series) < 35 => macd = NoMacd
            /\ Len(series) >= 35 =>
                  /\ macd.macd_line # None
                  /\ macd.macd_signal # None
                  /\ macd.macd_histogram # None
                  /\ ConstantSeries =>
                        /\ macd.macd_line = Some(Int2Rat(0))
                        /\ macd.macd_signal = Some(Int2Rat(0))
                        /\ macd.macd_histogram = Some(Int2Rat(0))

\* the quantity, and the value price x quantity, of the trades of one action
\* in a ledger (of one ticker, or of every ticker)
RECURSIVE TradedQuantity(_, _, _)
TradedQuantity(ledger, action, ticker) ==
    IF ledger = <<>> THEN 0
    ELSE (IF Head(ledger).action = action /\ Head(ledger).ticker = ticker
          THEN Head(ledger).quantity ELSE 0)
         + TradedQuantity(Tail(ledger), action, ticker)

RECURSIVE TradedValue(_, _)
TradedValue(ledger, action) ==
    IF ledger = <<>> THEN 0
    ELSE (IF Head(ledger).action = action
          THEN Head(ledger).entry_price * Head(ledger).quantity ELSE 0)
         + TradedValue(Tail(ledger), action)

\* C37: after any sequence of calls applied one at a time, the positions map
\* is the replay of the ledger on the opening account: for every ticker the
\* held quantity is what the account opened with plus the bought minus the
\* sold quantities, the map lists exactly the tickers with a quantity left,
\* and current_cash is the opening cash minus the value of the buys plus the
\* value of the sells.
PositionsAreLedgerTotals ==
    /\ \A t \in Tickers :
          Held(account.positions, t)
             = Held(opening.positions, t) + TradedQuantity(trades, "buy", t)
                  - TradedQuantity(trades, "sell", t)
    /\ DOMAIN account.positions
          = {t \in Tickers :
                Held(opening.positions, t) + TradedQuantity(trades, "buy", t)
                   - TradedQuantity(trades, "sell", t) > 0}
    /\ account.current_cash
          = opening.current_cash - TradedValue(trades, "buy")
               + TradedValue(trades, "sell")

\* C37 witness: an account that opened with its starting cash and nothing
\* held has bought two of a ticker and then sold one of them at another price
BoughtTwoSoldOneFromFresh ==
    /\ opening.positions = <<>>
    /\ opening.current_cash = opening.starting_capital
    /\ Len(trades) = 2
    /\ trades[1].action = "buy" /\ trades[1].quantity = 2
    /\ trades[2].action = "sell" /\ trades[2].quantity = 1
    /\ trades[2].ticker = trades[1].ticker
    /\ trades[2].entry_price # trades[1].entry_price
    /\ account.positions = (trades[1].ticker :> 1)

\* the price tables under which every trade of the ledger executed at the
\* price of its ticker
LedgerPrices ==
    {cp \in [Tickers -> Prices] :
        \A i \in DOMAIN trades : trades[i].entry_price = cp[trades[i].ticker]}

\* C38: when every trade executed at the one price of its ticker, the total
\* portfolio value at those prices is the same in every reachable state, the
\* value of the account the run opened with, which is the starting cash for
\* an account that opened with its starting cash and nothing held.
ValueKeptAtUnchangedPrices ==
    \A cp \in LedgerPrices :
        /\ CalculateTotalPortfolioValue(account.current_cash, account.positions, cp)
              = CalculateTotalPortfolioValue(opening.current_cash, opening.positions, cp)
        /\ (opening.positions = <<>> /\ opening.current_cash = opening.starting_capital)
              => CalculateTotalPortfolioValue(account.current_cash,
                                              account.positions, cp)
                    = opening.starting_capital

\* C38 witness: from the starting cash, two of a ticker were bought at 1 and
\* one of them sold at 1, so cash and holdings both differ from the opening
BoughtAndSoldAtOnePrice ==
    /\ opening.positions = <<>>
    /\ opening.current_cash = opening.starting_capital
    /\ Len(trades) = 2
    /\ trades[1] = Trade("buy", "AAPL", 2, 1)
    /\ trades[2] = Trade("sell", "AAPL", 1, 1)
    /\ account.current_cash = opening.starting_capital - 1
    /\ account.positions = ("AAPL" :> 1)
    /\ LedgerPrices # {}

\* whether the loop over one ticker's trades, started in st, keeps
\* quantity_held at 0 or more and meets every sell with at least the sold
\* quantity held (so that avg_cost is entry_cost / quantity_held)
RECURSIVE ReplayStaysHeld(_, _)
ReplayStaysHeld(st, ticker_list) ==
    IF ticker_list = <<>> THEN st.quantity_held >= 0
    ELSE LET trade == Head(ticker_list)
         IN  /\ st.quantity_held >= 0
             /\ trade.action = "sell" =>
                   st.quantity_held > 0 /\ st.quantity_held >= trade.quantity
             /\ ReplayStaysHeld(IF trade.action = "buy" THEN BuyStep(st, trade)
                                ELSE IF trade.action = "sell" THEN SellStep(st, trade)
                                ELSE st,
                                Tail(ticker_list))

\* C39: for the ledger of an account that opened with nothing held, the
\* realized-P&L replay never has quantity_held below 0 and never meets a sell
\* with nothing held, and it ends, for every ticker, with the quantity the
\* account holds.
ReplayFollowsHoldings ==
    opening.positions = <<>> =>
        \A t \in Tickers :
            /\ ReplayStaysHeld(NothingHeld, TickerTrades(trades, t))
            /\ TickerLoop(NothingHeld, TickerTrades(trades, t)).quantity_held
                  = Held(account.positions, t)

\* C39 witness: an account that opened with nothing held has sold the whole
\* of what it bought, and the replay of that ticker ends with nothing held
SoldAllThatWasBought ==
    /\ opening.positions = <<>>
    /\ Len(trades) = 2
    /\ trades[1].action = "buy"
    /\ trades[2].action = "sell"
    /\ trades[2].ticker = trades[1].ticker
    /\ trades[2].quantity = trades[1].quantity
    /\ account.positions = <<>>
    /\ TickerLoop(NothingHeld, TickerTrades(trades, trades[1].ticker)).quantity_held = 0

\* the events of one user, in the order they were recorded
EventsOf(user_id) == SelectSeq(user_events, LAMBDA e : e.user_id = user_id)

\* the place of the user's latest selection among the user's events (0: none)
LatestSelection(own) ==
    IF \E i \in DOMAIN own : own[i].action = "select"
    THEN CHOOSE i \in DOMAIN own :
            /\ own[i].action = "select"
            /\ \A j \in DOMAIN own : own[j].action = "select" => j <= i
    ELSE 0

\* the agents of the latest selection that no later drop of the user names
SelectionMinusDrops(own) ==
    LET i == LatestSelection(own)
    IN  IF i = 0 THEN <<>>
        ELSE SelectSeq(own[i].agent_ids,
                       LAMBDA aid : ~\E j \in DOMAIN own :
                                        /\ j > i
                                        /\ own[j].action = "drop"
                                        /\ own[j].agent_id = Some(aid))

\* C40: get_user_agents returns the user's latest selection minus the agents
\* the user dropped after it, at most 5 agents, whatever the other users
\* recorded; a selection of fewer than 3 or more than 5 agents raises an
\* error and leaves the file as it was.
RosterIsLatestSelectionMinusDrops ==
    roster # None =>
        LET c == roster[1]
        IN  /\ c.call = "get" =>
                  /\ c.result[1] = SelectionMinusDrops(EventsOf(c.user_id))
                  /\ c.result[1] = GetUserAgents(EventsOf(c.user_id), c.user_id)
                  /\ Len(c.result[1]) <= 5
            /\ (c.call = "select" /\ (Len(c.agent_ids) < 3 \/ Len(c.agent_ids) > 5)) =>
                  /\ c.error # None
                  /\ c.result = None
                  /\ user_events = c.before
            /\ (c.call = "select" /\ Len(c.agent_ids) >= 3 /\ Len(c.agent_ids) <= 5) =>
                  /\ c.error = None
                  /\ user_events = Append(c.before, c.result[1])

\* C40 witness: user 1 selected three agents and later dropped one of them,
\* user 2 selected others at the time of the drop, and user 1's roster is asked
DropAfterSelectionAmongOthers ==
    /\ roster # None
    /\ roster[1].call = "get"
    /\ roster[1].user_id = 1
    /\ Len(user_events) = 3
    /\ user_events[1].user_id = 1 /\ user_events[1].agent_ids = <<1, 2, 3>>
    /\ user_events[2].user_id = 2 /\ user_events[2].action = "select"
    /\ user_events[3].user_id = 1 /\ user_events[3].agent_id = Some(1)
    /\ user_events[3].timestamp = user_events[2].timestamp
    /\ roster[1].result = Some(<<2, 3>>)

====
